---- MODULE Spec2Model ----
(***************************************************************************)
(* A model of ganaterm (src/ganaterm.py): the response parser, the safety  *)
(* classifier, the stream aggregator, the provider fallback loop of        *)
(* chat_once and the interactive executor.                                  *)
(*                                                                          *)
(* Text is a sequence of tokens.  A token is a run of word characters (\w), *)
(* a single punctuation or whitespace character, or one of a few tokens    *)
(* that start with punctuation and end in a word character ("-rf").  The   *)
(* regular expressions of the source are evaluated token by token.         *)
(* Non-ASCII literals of the source are transliterated:                     *)
(*   "mingling"       the fence tag of line 616                             *)
(*   "cuowu:"         the prefix tested at line 1126 (startswith)           *)
(*   "qingqiucuowu"   the infix tested at line 1126 (in)                    *)
(***************************************************************************)
EXTENDS Integers, Sequences, FiniteSets, TLC

VARIABLES
    \* ---- process_response applied to one text (SpecParse)
    pr_response, pr_code_blocks, pr_commands, pr_pc,
    \* ---- stream_response reading one stream (SpecStream)
    sr_model,        \* the provider
    sr_key,          \* API_KEYS[model] is non-empty
    sr_connected,    \* call_<provider>_api returned a response (not None)
    sr_lines,        \* what response_stream.iter_lines() yields, in order
    sr_i,            \* the number of lines consumed
    full_message,    \* the local of that name
    sr_result,       \* the value returned
    sr_pc,
    \* ---- one run of the program (Spec)
    history,         \* the global conversation (line 183)
    current_model,   \* the global preferred provider (line 184)
    history_file,    \* the lines of HISTORY_FILE
    API_KEYS,        \* provider -> its key is non-empty (line 115)
    behaviour,       \* provider -> what its service may do when called
    stack,           \* the activations of chat_once, the running one last
    events,          \* the threading.Event objects created: is_set() of each
    spawned,         \* the calls of execute_command, in order
    written,         \* the successful calls of write_to_file, in order
    last_return,     \* what the most recent call of write_to_file or
                     \* execute_command returned
    main_pc,         \* "start", "chat" (inside chat_once) or "exit"
    \* ---- what a run is given
    argv,            \* sys.argv[1:]
    typed,           \* what is typed at the prompt of line 1281
    spinner_hangs,   \* the indicator threads of this run never terminate
    rt_block,        \* the block that pr_response serializes (SpecRoundTrip)
    \* ---- save_to_history and load_history on one file (SpecHistory)
    hs_log,          \* the lines of the file at the start
    hs_file,         \* the lines of the file
    hs_saved,        \* the messages passed to save_to_history, in order
    hs_result,       \* what load_history returned
    hs_pc,           \* "start", "loaded" or "raised"
    \* ---- execute_command running one child process (SpecExec)
    ex_prog,         \* what the child still has to write: "out" or "err" units
    ex_status,       \* the exit status of the child
    ex_out, ex_err,  \* the units held by the pipes of its stdout and stderr
    ex_child,        \* "running" or "exited"
    ex_pc,           \* where execute_command is
    ex_success,      \* the flag it returns
    \* ---- suggest_filename applied to one block (SpecSuggest)
    sf_block,        \* the block
    sf_name,         \* the name returned
    sf_pc            \* "start" or "done"

prVars == <<pr_response, pr_code_blocks, pr_commands, pr_pc>>
srVars == <<sr_model, sr_key, sr_connected, sr_lines, sr_i, full_message, sr_result, sr_pc>>
seVars == <<history, current_model, history_file, API_KEYS, behaviour, stack, events,
            spawned, written, last_return, main_pc>>
inVars == <<argv, typed, spinner_hangs, rt_block>>
hsVars == <<hs_log, hs_file, hs_saved, hs_result, hs_pc>>
exVars == <<ex_prog, ex_status, ex_out, ex_err, ex_child, ex_pc, ex_success>>
sfVars == <<sf_block, sf_name, sf_pc>>
vars   == <<prVars, srVars, seVars, inVars, exVars, hsVars, sfVars>>

(***************************************************************************)
(* Tokens                                                                   *)
(***************************************************************************)
NL    == "NL"
FENCE == "FENCE"
SP    == " "
QUOTE == "QUOTE"
BSL   == "BSL"

WhiteToks == {SP, NL}
PunctToks == {"$", "!", "+", "/", "~", "..", ".", "|", "#", ":", "{", "}", ";",
              "(", ")", "&", "=", "/*", "*/", "<!--", "-->", FENCE, QUOTE, BSL, ","}
\* start with a non-word character and end in a word character
MixedToks == {"-rf", "-r", "-f", "-fr", "-la", "-R", "ESC[31m", "ESC[33m", "ESC[0m"}

IsWhite(t)     == t \in WhiteToks
IsWordTok(t)   == t \notin (WhiteToks \cup PunctToks \cup MixedToks)
FirstIsWord(t) == IsWordTok(t)
LastIsWord(t)  == t \notin (WhiteToks \cup PunctToks)

\* str.lower() on the tokens that have an upper-case form in the model
LowerTok(t) ==
    CASE t = "Y" -> "y"
      [] t = "N" -> "n"
      [] t = "Bash" -> "bash"
      [] t = "Foo" -> "foo"
      [] OTHER -> t

Lower(s) == [i \in 1..Len(s) |-> LowerTok(s[i])]

\* str.strip(): leading and trailing whitespace removed
Strip(s) ==
    LET idx == {i \in 1..Len(s) : ~IsWhite(s[i])}
    IN  IF idx = {} THEN <<>>
        ELSE LET lo == CHOOSE i \in idx : \A j \in idx : i <= j
                 hi == CHOOSE i \in idx : \A j \in idx : j <= i
             IN  SubSeq(s, lo, hi)

\* the first index >= i that does not hold a whitespace token (Len+1 if none)
WsEnd(s, i) ==
    CHOOSE j \in i..(Len(s) + 1) :
        /\ \A k \in i..(j - 1) : IsWhite(s[k])
        /\ (j = Len(s) + 1 \/ ~IsWhite(s[j]))

\* the first index >= i that holds a whitespace token (Len+1 if none)
NonWsEnd(s, i) ==
    CHOOSE j \in i..(Len(s) + 1) :
        /\ \A k \in i..(j - 1) : ~IsWhite(s[k])
        /\ (j = Len(s) + 1 \/ IsWhite(s[j]))

\* the first index >= i that does not hold a word token (Len+1 if none)
WordEnd(s, i) ==
    CHOOSE j \in i..(Len(s) + 1) :
        /\ \A k \in i..(j - 1) : IsWordTok(s[k])
        /\ (j = Len(s) + 1 \/ ~IsWordTok(s[j]))

\* \b just before token i (i = Len+1: at the end of the string)
Boundary(s, i) ==
    (i <= Len(s) /\ FirstIsWord(s[i])) # (i > 1 /\ LastIsWord(s[i - 1]))

\* str.split("\n")
RECURSIVE SplitLines(_)
SplitLines(s) ==
    LET nls == {i \in 1..Len(s) : s[i] = NL}
    IN  IF nls = {} THEN <<s>>
        ELSE LET i == CHOOSE k \in nls : \A j \in nls : k <= j
             IN  <<SubSeq(s, 1, i - 1)>> \o SplitLines(SubSeq(s, i + 1, Len(s)))

\* the substring test (x in s) for a one-token needle
Contains(s, t) == \E i \in 1..Len(s) : s[i] = t

\* no "\n" strictly between positions i and j: what .* can span
SameLine(s, i, j) == \A k \in (i + 1)..(j - 1) : s[k] # NL

(***************************************************************************)
(* is_dangerous_command: one definition per entry of dangerous_patterns     *)
(***************************************************************************)
RmTarget(s, k) ==
    /\ k <= Len(s)
    /\ \/ s[k] \in {"/", "~", ".."}
       \/ (s[k] = "." /\ k + 1 <= Len(s) /\ s[k + 1] = ".")

\* \brm\s+(-[rf]+\s+)?(\/|~|\.\.)
PatRm(s) ==
    \E i \in 1..Len(s) :
        /\ s[i] = "rm" /\ Boundary(s, i)
        /\ LET a == WsEnd(s, i + 1)
           IN  /\ a > i + 1
               /\ \/ RmTarget(s, a)
                  \/ /\ a <= Len(s) /\ s[a] \in {"-rf", "-r", "-f", "-fr"}
                     /\ LET b == WsEnd(s, a + 1)
                        IN  b > a + 1 /\ RmTarget(s, b)

\* \bmv\s+\S+\s+(\/|~)
PatMv(s) ==
    \E i \in 1..Len(s) :
        /\ s[i] = "mv" /\ Boundary(s, i)
        /\ LET a == WsEnd(s, i + 1)
               b == NonWsEnd(s, a)
               c == WsEnd(s, b)
           IN  /\ a > i + 1 /\ b > a /\ c > b
               /\ c <= Len(s) /\ s[c] \in {"/", "~"}

\* \bdd\s+
PatDd(s) ==
    \E i \in 1..Len(s) :
        s[i] = "dd" /\ Boundary(s, i) /\ i < Len(s) /\ IsWhite(s[i + 1])

\* \bformat\b, \bmkfs\b, \b(halt|poweroff|shutdown|reboot)\b
PatWord(s, words) ==
    \E i \in 1..Len(s) :
        s[i] \in words /\ Boundary(s, i) /\ Boundary(s, i + 1)

\* :(){.*};:  -- "()" is an empty group of the expression, not two characters
PatFork(s) ==
    \E i \in 1..Len(s) : \E j \in 1..Len(s) :
        /\ i + 1 < j /\ j + 2 <= Len(s)
        /\ s[i] = ":" /\ s[i + 1] = "{"
        /\ s[j] = "}" /\ s[j + 1] = ";" /\ s[j + 2] = ":"
        /\ SameLine(s, i + 1, j)

\* \bchmod\s+-[R].*777\b
PatChmod(s) ==
    \E i \in 1..Len(s) : \E j \in 1..Len(s) :
        /\ s[i] = "chmod" /\ Boundary(s, i)
        /\ LET a == WsEnd(s, i + 1)
           IN  /\ a > i + 1 /\ a <= Len(s) /\ s[a] = "-R"
               /\ j > a /\ s[j] = "777" /\ Boundary(s, j + 1)
               /\ SameLine(s, a, j)

\* \b(wget|curl).*\|\s*(bash|sh)\b
PatPipe(s) ==
    \E i \in 1..Len(s) : \E j \in 1..Len(s) :
        /\ s[i] \in {"wget", "curl"} /\ Boundary(s, i)
        /\ j > i /\ s[j] = "|" /\ SameLine(s, i, j)
        /\ LET b == WsEnd(s, j + 1)
           IN  b <= Len(s) /\ s[b] \in {"bash", "sh"} /\ Boundary(s, b + 1)

is_dangerous_command(command) ==
    \/ PatRm(command)
    \/ PatMv(command)
    \/ PatDd(command)
    \/ PatWord(command, {"format"})
    \/ PatWord(command, {"mkfs"})
    \/ PatWord(command, {"halt", "poweroff", "shutdown", "reboot"})
    \/ PatFork(command)
    \/ PatChmod(command)
    \/ PatPipe(command)

(***************************************************************************)
(* detect_code_blocks: re.finditer of the expression of line 609: the      *)
(* three-backtick marker (FENCE), a run of word characters, a newline, the *)
(* shortest text that a newline and a FENCE follow                          *)
(***************************************************************************)
\* the index of the closing fence of the match that starts at token i, 0 if
\* the expression does not match there
MatchEnd(text, i) ==
    IF text[i] # FENCE THEN 0
    ELSE LET t == WordEnd(text, i + 1)
         IN  IF t > Len(text) \/ text[t] # NL THEN 0
             ELSE LET closers == {e \in (t + 1)..(Len(text) - 1) :
                                      text[e] = NL /\ text[e + 1] = FENCE}
                  IN  IF closers = {} THEN 0
                      ELSE 1 + (CHOOSE e \in closers : \A f \in closers : e <= f)

\* one element of code_blocks, from the match at i that ends at e
CodeBlock(text, i, e) ==
    LET t    == WordEnd(text, i + 1)
        tag  == SubSeq(text, i + 1, t - 1)
        lang == IF tag = <<>> THEN <<"text">> ELSE tag
        cmd  == Lower(lang) = <<"mingling">>
    IN  [language   |-> IF cmd THEN <<"bash">> ELSE lang,
         content    |-> SubSeq(text, t + 1, e - 2),
         start      |-> i - 1,
         end        |-> e,
         is_command |-> cmd]

RECURSIVE FindBlocks(_, _)
FindBlocks(text, from) ==
    LET starts == {i \in from..Len(text) : MatchEnd(text, i) # 0}
    IN  IF starts = {} THEN <<>>
        ELSE LET i == CHOOSE k \in starts : \A j \in starts : k <= j
                 e == MatchEnd(text, i)
             IN  <<CodeBlock(text, i, e)>> \o FindBlocks(text, e + 1)

detect_code_blocks(text) == FindBlocks(text, 1)

(***************************************************************************)
(* process_response                                                          *)
(***************************************************************************)
\* re.match(r"^(?:\!|\$)\s*(.+)$", line.strip()).group(1).strip(); <<>> when
\* the line does not match
CommandOfLine(line) ==
    LET l == Strip(line)
    IN  IF l = <<>> \/ l[1] \notin {"!", "$"} THEN <<>>
        ELSE Strip(SubSeq(l, WsEnd(l, 2), Len(l)))

RECURSIVE CommandsOfLines(_)
CommandsOfLines(lines) ==
    IF lines = <<>> THEN <<>>
    ELSE LET cmd == CommandOfLine(Head(lines))
         IN  (IF cmd # <<>> /\ ~is_dangerous_command(cmd) THEN <<cmd>> ELSE <<>>)
             \o CommandsOfLines(Tail(lines))

\* the cleaned text (line 944) is returned and never read: not modelled
process_response(response) ==
    [code_blocks |-> detect_code_blocks(response),
     commands    |-> CommandsOfLines(SplitLines(response))]

(***************************************************************************)
(* SpecParse: process_response applied to every text within the bounds     *)
(***************************************************************************)
MaxTextLen == 6

ParseAlphabet == {FENCE, NL, "mingling", "$", "ls", "+"}

RECURSIVE SeqsUpTo(_, _)
SeqsUpTo(S, n) ==
    IF n = 0 THEN {<<>>}
    ELSE LET shorter == SeqsUpTo(S, n - 1)
         IN  shorter \cup {Append(s, x) : s \in {q \in shorter : Len(q) = n - 1}, x \in S}

\* a bash block holding "ls -la", then the line "$ rm -rf /"
ExampleText ==
    <<FENCE, "bash", NL, "ls", SP, "-la", NL, FENCE, NL, "$", SP, "rm", SP, "-rf", SP, "/">>

ParseInputs == SeqsUpTo(ParseAlphabet, MaxTextLen) \cup {ExampleText}

ParseStart ==
    /\ pr_response \in ParseInputs
    /\ pr_code_blocks = <<>>
    /\ pr_commands = <<>>
    /\ pr_pc = "start"

Parse ==
    /\ pr_pc = "start"
    /\ LET r == process_response(pr_response)
       IN  /\ pr_code_blocks' = r.code_blocks
           /\ pr_commands' = r.commands
    /\ pr_pc' = "done"
    /\ UNCHANGED <<pr_response, srVars, seVars, inVars, sfVars, exVars, hsVars>>

ParseNext == Parse

(***************************************************************************)
(* colored_text and the texts stream_response returns in place of a reply  *)
(***************************************************************************)
Fore_RED    == "ESC[31m"
Fore_YELLOW == "ESC[33m"
RESET_ALL   == "ESC[0m"

colored_text(text, color) == <<color>> \o text \o <<RESET_ALL>>

\* line 866
ErrUnavailable(model) == colored_text(<<"cuowu:", SP, "moxing", model, "bukeyong">>, Fore_RED)
\* line 869
ErrConnect(model) == colored_text(<<"cuowu:", SP, "wufalianjiedao", model, "fuwu">>, Fore_RED)
\* line 902; "e" stands for str(e)
ErrRequest(model) == colored_text(<<model, "qingqiucuowu", ":", SP, "e">>, Fore_RED)

(***************************************************************************)
(* One line of the stream (lines 877-897).  A line is a record:            *)
(*   k = "ioerror"     iter_lines() raises instead of yielding a line      *)
(*   k = "empty"       b"" (keep-alive)                                    *)
(*   k = "undecodable" bytes that are not UTF-8                            *)
(*   k = "other"       text that does not start with "data: "              *)
(*   k = "done"        "data: [DONE]"                                      *)
(*   k = "badjson"     "data: " followed by text json.loads rejects        *)
(*   k = "nonobject"   "data: " followed by JSON that is no object (5)     *)
(*   k = "nochoices"   a JSON object with no or an empty "choices"         *)
(*   k = "nocontent"   choices[0].delta has no "content"                   *)
(*   k = "null"        choices[0].delta.content is null                    *)
(*   k = "content"     choices[0].delta.content is the string c            *)
(***************************************************************************)
Line(k) == [k |-> k, c |-> <<>>]
Data(c) == [k |-> "content", c |-> c]

\* the effect of one iteration of the loop of line 876 on full_message, and
\* how the iteration ends: "next", "break" or "raise" (out of the loop, to
\* the handler of line 901)
LineStep(line, full) ==
    CASE line.k = "ioerror"     -> [full |-> full, ctl |-> "raise"]
      [] line.k = "empty"       -> [full |-> full, ctl |-> "next"]
      [] line.k = "undecodable" -> [full |-> full, ctl |-> "raise"]
      [] line.k = "other"       -> [full |-> full, ctl |-> "next"]
      [] line.k = "done"        -> [full |-> full, ctl |-> "break"]
      [] line.k = "badjson"     -> [full |-> full, ctl |-> "next"]
      [] line.k = "nonobject"   -> [full |-> full, ctl |-> "next"]
      [] line.k = "nochoices"   -> [full |-> full, ctl |-> "next"]
      [] line.k = "nocontent"   -> [full |-> full, ctl |-> "next"]
      [] line.k = "null"        -> [full |-> full, ctl |-> "next"]
      [] line.k = "content"     -> [full |-> full \o line.c, ctl |-> "next"]

\* lines 875-902 from line number i on
RECURSIVE ReadLines(_, _, _, _)
ReadLines(model, lines, i, full) ==
    IF i > Len(lines) THEN full
    ELSE LET r == LineStep(lines[i], full)
         IN  CASE r.ctl = "raise" -> ErrRequest(model)
               [] r.ctl = "break" -> r.full
               [] OTHER           -> ReadLines(model, lines, i + 1, r.full)

\* stream_response as a function of what the provider does
stream_response(model, key, connected, lines) ==
    IF ~key THEN ErrUnavailable(model)
    ELSE IF ~connected THEN ErrConnect(model)
    ELSE ReadLines(model, lines, 1, <<>>)

(***************************************************************************)
(* SpecStream: stream_response, one line at a time                          *)
(***************************************************************************)
MaxLines == 3

Fragments == {<<"h">>, <<"i">>}

LineKinds == {"ioerror", "empty", "undecodable", "other", "done", "badjson",
              "nonobject", "nochoices", "nocontent", "null"}

Lines == {Line(k) : k \in LineKinds} \cup {Data(c) : c \in Fragments}

StreamStart ==
    /\ sr_model = "deepseek"
    /\ sr_key \in BOOLEAN
    /\ sr_connected \in BOOLEAN
    /\ sr_lines \in SeqsUpTo(Lines, MaxLines)
    /\ (~sr_key \/ ~sr_connected) => sr_lines = <<>>
    /\ sr_key \/ sr_connected
    /\ sr_i = 0
    /\ full_message = <<>>
    /\ sr_result = <<>>
    /\ sr_pc = "call"

\* lines 859-873
StreamCall ==
    /\ sr_pc = "call"
    /\ IF ~sr_key
         THEN sr_result' = ErrUnavailable(sr_model) /\ sr_pc' = "done"
         ELSE IF ~sr_connected
         THEN sr_result' = ErrConnect(sr_model) /\ sr_pc' = "done"
         ELSE sr_result' = sr_result /\ sr_pc' = "read"
    /\ UNCHANGED <<sr_model, sr_key, sr_connected, sr_lines, sr_i, full_message>>
    /\ UNCHANGED <<prVars, seVars, inVars, sfVars, exVars, hsVars>>

\* one iteration of the loop of line 876
StreamLine ==
    /\ sr_pc = "read"
    /\ sr_i < Len(sr_lines)
    /\ LET r == LineStep(sr_lines[sr_i + 1], full_message)
       IN  /\ full_message' = r.full
           /\ sr_i' = sr_i + 1
           /\ CASE r.ctl = "raise" -> sr_result' = ErrRequest(sr_model) /\ sr_pc' = "done"
                [] r.ctl = "break" -> sr_result' = r.full /\ sr_pc' = "done"
                [] OTHER           -> sr_result' = sr_result /\ sr_pc' = "read"
    /\ UNCHANGED <<sr_model, sr_key, sr_connected, sr_lines>>
    /\ UNCHANGED <<prVars, seVars, inVars, sfVars, exVars, hsVars>>

\* the stream ends without a terminator: lines 899-900
StreamEnd ==
    /\ sr_pc = "read"
    /\ sr_i = Len(sr_lines)
    /\ sr_result' = full_message
    /\ sr_pc' = "done"
    /\ UNCHANGED <<sr_model, sr_key, sr_connected, sr_lines, sr_i, full_message>>
    /\ UNCHANGED <<prVars, seVars, inVars, sfVars, exVars, hsVars>>

StreamNext == StreamCall \/ StreamLine \/ StreamEnd

(***************************************************************************)
(* Paths (os.path) and suggest_filename                                     *)
(***************************************************************************)
\* os.getcwd()
current_dir == <<"/", "w">>

isabs(path) == path # <<>> /\ path[1] = "/"

\* b is taken below a whatever it is
join_below(a, b) == a \o <<"/">> \o b

\* os.path.join(a, b), a not ending in "/"
join(a, b) == IF isabs(b) THEN b ELSE a \o <<"/">> \o b

\* os.path.basename
basename(path) ==
    LET slashes == {i \in 1..Len(path) : path[i] = "/"}
    IN  IF slashes = {} THEN path
        ELSE SubSeq(path, 1 + (CHOOSE i \in slashes : \A j \in slashes : j <= i), Len(path))

\* str.endswith
EndsWith(s, suffix) ==
    /\ Len(s) >= Len(suffix)
    /\ SubSeq(s, Len(s) - Len(suffix) + 1, Len(s)) = suffix

\* every language maps to ".txt"
txt_always(lang) == <<".", "txt">>

\* the dictionary of lines 645-666 ("c++" is the tokens c + +)
extensions(lang) ==
    CASE lang \in {<<"python">>, <<"py">>}         -> <<".", "py">>
      [] lang \in {<<"javascript">>, <<"js">>}     -> <<".", "js">>
      [] lang \in {<<"typescript">>, <<"ts">>}     -> <<".", "ts">>
      [] lang = <<"html">>                         -> <<".", "html">>
      [] lang = <<"css">>                          -> <<".", "css">>
      [] lang = <<"json">>                         -> <<".", "json">>
      [] lang \in {<<"bash">>, <<"shell">>, <<"sh">>} -> <<".", "sh">>
      [] lang = <<"ruby">>                         -> <<".", "rb">>
      [] lang = <<"go">>                           -> <<".", "go">>
      [] lang = <<"java">>                         -> <<".", "java">>
      [] lang = <<"c">>                            -> <<".", "c">>
      [] lang \in {<<"cpp">>, <<"c", "+", "+">>}   -> <<".", "cpp">>
      [] lang \in {<<"rust">>, <<"rs">>}           -> <<".", "rs">>
      [] OTHER                                     -> <<".", "txt">>

\* \s*filename\s*:\s*(\S+) matched from token i: the index of the first token
\* of the group, 0 when there is no match
NameStart(s, i) ==
    LET a == WsEnd(s, i)
    IN  IF a > Len(s) \/ s[a] # "filename" THEN 0
        ELSE LET b == WsEnd(s, a + 1)
             IN  IF b > Len(s) \/ s[b] # ":" THEN 0
                 ELSE LET c == WsEnd(s, b + 1)
                      IN  IF c > Len(s) THEN 0 ELSE c

\* (?:\/\/|#)\s*filename\s*:\s*(\S+) : the group of the leftmost match
DirectiveHash(s) ==
    LET after(i) == IF s[i] = "#" THEN i + 1
                    ELSE IF s[i] = "/" /\ i < Len(s) /\ s[i + 1] = "/" THEN i + 2
                    ELSE 0
        hits == {i \in 1..Len(s) : after(i) # 0 /\ NameStart(s, after(i)) # 0}
    IN  IF hits = {} THEN <<>>
        ELSE LET i == CHOOSE k \in hits : \A j \in hits : k <= j
                 c == NameStart(s, after(i))
             IN  SubSeq(s, c, NonWsEnd(s, c) - 1)

\* open \s*filename\s*:\s*(\S+)\s* close : the group of the leftmost match; the
\* group is the longest run of non-blank tokens that blanks and close follow
DirectiveBracket(s, open, close) ==
    LET ends(c) == {e \in c..(NonWsEnd(s, c) - 1) :
                        LET d == WsEnd(s, e + 1) IN d <= Len(s) /\ s[d] = close}
        hits == {i \in 1..Len(s) :
                    /\ s[i] = open
                    /\ NameStart(s, i + 1) # 0
                    /\ ends(NameStart(s, i + 1)) # {}}
    IN  IF hits = {} THEN <<>>
        ELSE LET i == CHOOSE k \in hits : \A j \in hits : k <= j
                 c == NameStart(s, i + 1)
                 e == CHOOSE k \in ends(c) : \A j \in ends(c) : j <= k
             IN  SubSeq(s, c, e)

\* the substring tests of lines 685 and 693, on tokens
HasPair(s, first, second) ==
    \E i \in 1..(Len(s) - 2) : s[i] = first /\ s[i + 1] = SP /\ s[i + 2] = second

\* re.search(r"class\s+(\w+)", content).group(1), <<>> when there is none
ClassName(s) ==
    LET hits == {i \in 1..Len(s) :
                    /\ s[i] = "class"
                    /\ WsEnd(s, i + 1) > i + 1
                    /\ WordEnd(s, WsEnd(s, i + 1)) > WsEnd(s, i + 1)}
    IN  IF hits = {} THEN <<>>
        ELSE LET i == CHOOSE k \in hits : \A j \in hits : k <= j
                 a == WsEnd(s, i + 1)
             IN  SubSeq(s, a, WordEnd(s, a) - 1)

\* "file_T" stands for file_<int(time.time())>
suggest_filename(code_block) ==
    LET lang    == Lower(code_block.language)
        content == code_block.content
        d1      == DirectiveHash(content)
        d2      == DirectiveBracket(content, "/*", "*/")
        d3      == DirectiveBracket(content, "<!--", "-->")
        default == <<"file_T">> \o extensions(lang)
    IN  IF d1 # <<>> THEN d1
        ELSE IF d2 # <<>> THEN d2
        ELSE IF d3 # <<>> THEN d3
        ELSE IF lang \in {<<"python">>, <<"py">>}
             THEN IF HasPair(content, "def", "main") \/ Contains(content, "if__name__==__main__")
                  THEN <<"main", ".", "py">>
                  ELSE IF Contains(content, "class") /\ ClassName(content) # <<>>
                  THEN Lower(ClassName(content)) \o <<".", "py">>
                  ELSE default
        ELSE IF lang \in {<<"js">>, <<"javascript">>}
             THEN IF HasPair(content, "function", "main") \/ HasPair(content, "const", "main")
                  THEN <<"main", ".", "js">>
                  ELSE default
        ELSE IF lang = <<"html">> THEN <<"index", ".", "html">>
        ELSE IF lang \in {<<"sh">>, <<"bash">>, <<"shell">>} THEN <<"script", ".", "sh">>
        ELSE default

(***************************************************************************)
(* The session: main, chat_once, handle_commands, handle_code_blocks,      *)
(* handle_executable_file                                                   *)
(***************************************************************************)
MaxEdits == 1    \* requests to modify a block (line 1010) in one run

Providers == {"openai", "deepseek", "xai"}

SYSTEM_PROMPT == <<"SYSTEM_PROMPT">>

\* the list of lines 910-916
responses == {<<"fallback1">>, <<"fallback2">>, <<"fallback3">>, <<"fallback4">>,
              <<"fallback5">>}

\* the values fallback_response() can return (line 918)
fallback_response == {colored_text(r, Fore_YELLOW) : r \in responses}

Msg(role, content) == [role |-> role, content |-> content]

(***************************************************************************)
(* The history file: json.dumps, json.loads, save_to_history, load_history   *)
(* QUOTE is the double quote and BSL the backslash.  The file is the         *)
(* sequence of its lines, as "for line in f" reads them.                     *)
(***************************************************************************)
\* a string literal whose body is the raw text
Unescaped(s) == s

\* the body of a JSON string literal: the quote, the backslash and the
\* newline are escaped (ensure_ascii=False leaves every other token alone)
RECURSIVE Escape(_)
Escape(s) ==
    IF s = <<>> THEN <<>>
    ELSE (CASE Head(s) = NL    -> <<BSL, "n">>
            [] Head(s) = QUOTE -> <<BSL, QUOTE>>
            [] Head(s) = BSL   -> <<BSL, BSL>>
            [] OTHER           -> <<Head(s)>>) \o Escape(Tail(s))

JString(s) == <<QUOTE>> \o Escape(s) \o <<QUOTE>>

\* json.dumps of a dict of strings, given as a sequence of <<key, value>>
RECURSIVE dumps_items(_)
dumps_items(items) ==
    IF items = <<>> THEN <<>>
    ELSE JString(items[1][1]) \o <<":", SP>> \o JString(items[1][2])
         \o (IF Len(items) > 1 THEN <<",", SP>> ELSE <<>>) \o dumps_items(Tail(items))

dumps(items) == <<"{">> \o dumps_items(items) \o <<"}">>

\* every record is saved with the role "user"
line_as_user(role, content) ==
    dumps(<< <<<<"time">>, <<"now">>>>, <<<<"role">>, <<"user">>>>, <<<<"content">>, content>> >>)

\* the line save_to_history builds (lines 262-265); "now" stands for
\* str(datetime.now())
HistoryLine(role, content) ==
    dumps(<< <<<<"time">>, <<"now">>>>, <<<<"role">>, role>>, <<<<"content">>, content>> >>)

\* f.write(line + "\n") on a file opened for appending (lines 261-266)
save_to_history(file, role, content) == file \o SplitLines(HistoryLine(role, content))

\* the index of the quote that closes the string literal whose body starts at
\* i, 0 when the literal is not closed or holds an escape JSON does not have
RECURSIVE StringClose(_, _)
StringClose(l, i) ==
    IF i > Len(l) THEN 0
    ELSE IF l[i] = QUOTE THEN i
    ELSE IF l[i] = BSL
         THEN IF i + 1 <= Len(l) /\ l[i + 1] \in {"n", QUOTE, BSL}
              THEN StringClose(l, i + 2) ELSE 0
    ELSE StringClose(l, i + 1)

\* the string a literal body stands for
RECURSIVE Unescape(_)
Unescape(s) ==
    IF s = <<>> THEN <<>>
    ELSE IF Head(s) = BSL
         THEN <<IF s[2] = "n" THEN NL ELSE s[2]>> \o Unescape(Tail(Tail(s)))
    ELSE <<Head(s)>> \o Unescape(Tail(s))

JNumbers == {"5"}

\* a JSON value at i: a string or a number.  ok is FALSE where json.loads
\* raises JSONDecodeError; next is the index after the value
JValue(l, i) ==
    IF i > Len(l) THEN [ok |-> FALSE]
    ELSE IF l[i] = QUOTE
         THEN LET c == StringClose(l, i + 1)
              IN  IF c = 0 THEN [ok |-> FALSE]
                  ELSE [ok |-> TRUE, type |-> "str",
                        val |-> Unescape(SubSeq(l, i + 1, c - 1)), next |-> c + 1]
    ELSE IF l[i] \in JNumbers
         THEN [ok |-> TRUE, type |-> "num", val |-> <<l[i]>>, next |-> i + 1]
    ELSE [ok |-> FALSE]

\* the members of an object from i, after "{" or ",": key, colon, value, then
\* "," and more members or "}"
RECURSIVE JMembers(_, _, _)
JMembers(l, i, acc) ==
    LET k == JValue(l, WsEnd(l, i))
    IN  IF ~k.ok \/ k.type # "str" THEN [ok |-> FALSE]
        ELSE LET c == WsEnd(l, k.next)
             IN  IF c > Len(l) \/ l[c] # ":" THEN [ok |-> FALSE]
                 ELSE LET v == JValue(l, WsEnd(l, c + 1))
                      IN  IF ~v.ok THEN [ok |-> FALSE]
                          ELSE LET e    == WsEnd(l, v.next)
                                   accv == Append(acc, <<k.val, v>>)
                               IN  IF e > Len(l) THEN [ok |-> FALSE]
                                   ELSE IF l[e] = "}"
                                        THEN [ok |-> TRUE, type |-> "dict",
                                              items |-> accv, next |-> e + 1]
                                   ELSE IF l[e] = "," THEN JMembers(l, e + 1, accv)
                                   ELSE [ok |-> FALSE]

\* json.loads(text): ok is FALSE where it raises JSONDecodeError (an empty
\* text, a text that is not a value, text after the value)
loads(text) ==
    IF text = <<>> THEN [ok |-> FALSE]
    ELSE LET v == IF text[1] = "{"
                  THEN IF WsEnd(text, 2) <= Len(text) /\ text[WsEnd(text, 2)] = "}"
                       THEN [ok |-> TRUE, type |-> "dict", items |-> <<>>,
                             next |-> WsEnd(text, 2) + 1]
                       ELSE JMembers(text, 2, <<>>)
                  ELSE JValue(text, 1)
         IN  IF v.ok /\ WsEnd(text, v.next) = Len(text) + 1 THEN v ELSE [ok |-> FALSE]

DictHas(items, key) == \E i \in DOMAIN items : items[i][1] = key

\* msg[key]: a repeated key keeps its last value
Item(items, key) ==
    LET i == CHOOSE k \in DOMAIN items :
                 items[k][1] = key /\ \A j \in DOMAIN items : items[j][1] = key => j <= k
    IN  IF items[i][2].type = "str" THEN items[i][2].val ELSE items[i][2]

\* the body of the loop of load_history on one line (lines 248-252):
\* "append" a message, "skip" on JSONDecodeError, "raise" when msg["role"]
\* or msg["content"] raises KeyError or TypeError, which nothing catches
LoadLine(line) ==
    LET msg == loads(Strip(line))
    IN  IF ~msg.ok THEN [kind |-> "skip"]
        ELSE IF msg.type # "dict" THEN [kind |-> "raise"]
        ELSE IF ~DictHas(msg.items, <<"role">>) \/ ~DictHas(msg.items, <<"content">>)
             THEN [kind |-> "raise"]
        ELSE [kind |-> "append",
              msg  |-> Msg(Item(msg.items, <<"role">>), Item(msg.items, <<"content">>))]

\* load_history does not return: a line raises out of the loop
LoadRaises(file) == \E i \in DOMAIN file : LoadLine(file[i]).kind = "raise"

RECURSIVE LoadLines(_)
LoadLines(file) ==
    IF file = <<>> THEN <<>>
    ELSE LET r == LoadLine(Head(file))
         IN  (IF r.kind = "append" THEN <<r.msg>> ELSE <<>>) \o LoadLines(Tail(file))

\* the messages of the file alone
WithoutSystem(file) == LoadLines(file)

\* the list load_history returns when no line raises
load_history(file) == <<Msg(<<"system">>, SYSTEM_PROMPT)>> \o LoadLines(file)

\* list(dict.fromkeys(seq)): the first occurrence of each element, in order
RECURSIVE Dedup(_)
Dedup(seq) ==
    IF seq = <<>> THEN <<>>
    ELSE LET init == Dedup(SubSeq(seq, 1, Len(seq) - 1))
             last == seq[Len(seq)]
         IN  IF \E i \in 1..Len(init) : init[i] = last THEN init ELSE Append(init, last)

\* the list of line 1110 alone, with its repetitions
models_to_try_with_repeats(preferred) == <<preferred, "deepseek", "xai", "openai">>

\* line 1110-1111
models_to_try(preferred) == Dedup(<<preferred, "deepseek", "xai", "openai">>)

\* the first half of the test alone
starts_with_error(message) == message # <<>> /\ message[1] = "cuowu:"

\* the test of line 1126
IsErrorMessage(message) ==
    \/ (message # <<>> /\ message[1] = "cuowu:")
    \/ Contains(message, "qingqiucuowu")

\* what a service does when called: call_<provider>_api returns a response
\* or None, and the response yields these lines
ConnectFails == [connected |-> FALSE, lines |-> <<>>]
ReadFails    == [connected |-> TRUE, lines |-> <<Data(<<"hel">>), Line("ioerror")>>]
Replies(t)   == [connected |-> TRUE, lines |-> <<Data(t), Line("done")>>]

NoBlock == [language |-> <<>>, content |-> <<>>, start |-> 0 - 1, end |-> 0 - 1,
            is_command |-> FALSE]

\* the locals of one activation of chat_once and of the handlers it runs
NewFrame(prompt, preferred, event) ==
    [prompt             |-> prompt,
     preferred          |-> preferred,
     pc                 |-> "loop",
     models             |-> models_to_try(preferred),
     mi                 |-> 1,
     message            |-> <<>>,
     commands           |-> <<>>,
     ci                 |-> 0,
     code_blocks        |-> <<>>,
     filenames          |-> <<>>,
     bi                 |-> 0,
     suggested_filename |-> <<>>,
     full_path          |-> <<>>,
     cmd                |-> <<>>,
     stop_thinking      |-> event,
     attempts           |-> <<>>,
     own                |-> <<>>,
     ret                |-> <<>>]

Top == stack[Len(stack)]
SetTop(f) == [stack EXCEPT ![Len(stack)] = f]
Running == main_pc = "chat" /\ stack # <<>>

\* handle_commands, line 954-958: the next command that is not refused
NextCommand(commands, i) ==
    CHOOSE j \in i..(Len(commands) + 1) :
        /\ \A k \in i..(j - 1) : is_dangerous_command(commands[k])
        /\ (j = Len(commands) + 1 \/ ~is_dangerous_command(commands[j]))

\* suggest_filename(block) of line 980 for every block: it is a function of
\* the block alone, and the frame holds its values from the moment
\* code_blocks is known
Filenames(code_blocks) ==
    [b \in DOMAIN code_blocks |-> suggest_filename(code_blocks[b])]

\* handle_code_blocks at block b (lines 979-995), or the return of line 1152
BlockAt(f, b) ==
    IF b > Len(f.code_blocks)
    THEN [f EXCEPT !.pc = "return", !.ret = f.message]
    ELSE [f EXCEPT !.pc = "blocks", !.bi = b,
                   !.suggested_filename = f.filenames[b],
                   !.full_path = join(current_dir, f.filenames[b])]

\* the block at hand is presented again
same_block(f) == BlockAt(f, f.bi)

NextBlock(f) == BlockAt(f, f.bi + 1)

\* the code blocks are handled at once
BlocksFirst(f, c) == BlockAt(f, 1)

\* handle_commands at command c, or what follows it (lines 1148-1152)
CommandAt(f, c) ==
    LET j == NextCommand(f.commands, c)
    IN  IF j <= Len(f.commands) THEN [f EXCEPT !.pc = "cmds", !.ci = j]
        ELSE BlockAt(f, 1)

\* the file itself is offered for execution at once
launch_directly(f, file_path, language) == [f EXCEPT !.pc = "launch", !.cmd = file_path]

\* handle_executable_file up to its first prompt (lines 1056-1081)
handle_executable_file(f, file_path, language) ==
    IF language \in {<<"sh">>, <<"bash">>, <<"shell">>} \/ EndsWith(file_path, <<".", "sh">>)
    THEN [f EXCEPT !.pc = "chmod", !.cmd = <<"chmod", SP, "+", "x", SP>> \o file_path]
    ELSE IF language \in {<<"python">>, <<"py">>} \/ EndsWith(file_path, <<".", "py">>)
    THEN [f EXCEPT !.pc = "launch", !.cmd = <<"python3", SP>> \o file_path]
    ELSE IF language \in {<<"javascript">>, <<"js">>} \/ EndsWith(file_path, <<".", "js">>)
    THEN [f EXCEPT !.pc = "launch", !.cmd = <<"node", SP>> \o file_path]
    ELSE NextBlock(f)

\* what the user may type at a prompt
Answers == {<<"y">>, <<SP, "Y">>, <<"n">>, <<"e">>, <<"r", "n", "m">>,
            <<"r", SP, "fix">>, <<"r">>}

\* what the user may type as the new file name (line 1016)
FileNames == {<<>>, <<"a", ".", "py">>, <<"/", "t", "/", "b", ".", "sh">>}

\* input().strip().lower()
Choice(raw) == Lower(Strip(raw))

\* a prompt that takes every answer but "n" as an approval
YesUnlessNo(raw) == Choice(raw) # <<"n">>

\* the test of lines 961-963, 1026, 1059, 1066, 1074 and 1082
Yes(raw) == Choice(raw) = <<"y">>

\* the test of line 1004 alone
StartsWithR(choice) == choice # <<>> /\ choice[1] = "r" /\ choice # <<"r", "n", "m">>

\* line 1004 and 1006-1007: the answer starts a nested turn
IsEdit(choice) ==
    /\ choice # <<>> /\ choice[1] = "r" /\ choice # <<"r", "n", "m">>
    /\ Strip(Tail(choice)) # <<>>

\* the record of one call of execute_command: the command, the text the
\* prompt before it showed, the answer typed, and the code block whose file
\* the command runs (NoBlock when it runs none). The variable spawned holds
\* the record of the most recent call, and written that of the most recent
\* call of write_to_file that opened its file.
Spawn(cmd, shown, raw, block) ==
    [cmd |-> cmd, shown |-> shown, answer |-> raw, block |-> block]

\* what write_to_file (True or False) or execute_command (the flag success)
\* returned
Returns(call, success) == [call |-> call, success |-> success]

\* lines 1095-1111: the caller's frame is on the stack already
EnterChat(prompt, callers) ==
    /\ history' = Append(history, Msg(<<"user">>, prompt))
    /\ history_file' = save_to_history(history_file, <<"user">>, prompt)
    /\ events' = Append(events, FALSE)
    /\ stack' = Append(callers, NewFrame(prompt, current_model, Len(events) + 1))

(***************************************************************************)
(* The environments of a run                                                *)
(***************************************************************************)
\* "hello"
TextHello == <<"hello">>
\* "$ ls"
TextCommand == <<"$", SP, "ls">>
\* two commands and a block without a tag
TextScript ==
    <<"$", SP, "ls", NL, "!", "pwd", NL, FENCE, NL, "x", NL, FENCE>>
\* a block tagged as a command whose content is "rm -rf /"
TextDanger == <<FENCE, "mingling", NL, "rm", SP, "-rf", SP, "/", NL, FENCE>>
\* a python block that names its file reboot.py, then a javascript block
TextNamed ==
    <<FENCE, "python", NL, "#", SP, "filename", ":", SP, "reboot", ".", "py", NL,
      "x", NL, FENCE, NL, FENCE, "js", NL, "y", NL, FENCE>>

FallbackBehaviours == {ConnectFails, ReadFails, Replies(TextHello), Replies(TextCommand)}
ExecTexts == {TextScript, TextDanger}

\* every provider either has no key, or has one and does one fixed thing
FallbackConfigs ==
    {b \in [Providers -> {{}} \cup {{x} : x \in FallbackBehaviours}] : TRUE}

\* one provider has a key: deepseek, which replies with any of the texts
\* with one block, or xai, which replies with the text with two
ScriptConfig ==
    [p \in Providers |-> IF p = "deepseek" THEN {Replies(t) : t \in ExecTexts} ELSE {}]
NamedConfig == [p \in Providers |-> IF p = "xai" THEN {Replies(TextNamed)} ELSE {}]
ExecConfigs == {ScriptConfig, NamedConfig}

\* a reply of a model that begins with the word the error test looks for and
\* holds a command
TextLikeError == <<"cuowu:", NL, "$", SP, "ls">>

\* openai replies with that text and deepseek with the empty text
ErrorLikeConfig ==
    [p \in Providers |-> CASE p = "openai"   -> {Replies(TextLikeError)}
                           [] p = "deepseek" -> {Replies(<<>>)}
                           [] OTHER          -> {}]

\* the history file of an earlier run: one record, and one record followed by
\* an object without keys
InitialLogs == {<<HistoryLine(<<"user">>, <<"old">>)>>,
                <<HistoryLine(<<"user">>, <<"old">>), <<"{", "}">>>>}

\* every behaviour a service has in some run
Scenarios ==
    UNION {b[p] : b \in FallbackConfigs \cup ExecConfigs \cup {ErrorLikeConfig}, p \in Providers}

\* what lines 1123-1142 compute when the service of model does sc: the value
\* of stream_response, the test of line 1126 on it, and what
\* process_response and suggest_filename make of it
Outcome(model, sc) ==
    LET message == stream_response(model, TRUE, sc.connected, sc.lines)
        r       == process_response(message)
    IN  [model |-> model, does |-> sc, message |-> message,
         failed |-> IsErrorMessage(message),
         commands |-> r.commands, code_blocks |-> r.code_blocks,
         filenames |-> Filenames(r.code_blocks)]

Outcomes == {Outcome(model, sc) : model \in Providers, sc \in Scenarios}

\* what load_history does on each history file a run may start with
Loads == {[file |-> f, raises |-> LoadRaises(f), result |-> load_history(f)] :
             f \in InitialLogs}

\* " ".join(args)
RECURSIVE JoinArgs(_)
JoinArgs(args) ==
    IF args = <<>> THEN <<>>
    ELSE IF Len(args) = 1 THEN args[1]
    ELSE args[1] \o <<SP>> \o JoinArgs(Tail(args))

\* every selector names the first model
AnySelector(flag) == "openai"

\* the model that the selector argv[1] names, "" when it names none
ModelOfFlag(flag) ==
    CASE flag = <<"g">> -> "openai"
      [] flag = <<"d">> -> "deepseek"
      [] flag = <<"x">> -> "xai"
      [] OTHER          -> ""

\* the local prompt of main (lines 1261-1281)
PromptOf(args, text) == IF Len(args) > 1 THEN JoinArgs(Tail(args)) ELSE text

\* main, lines 1186-1290
Main ==
    /\ main_pc = "start"
    /\ IF argv = <<>> \/ argv[1] \in {<<"--test">>, <<"-t">>} \/ ModelOfFlag(argv[1]) = ""
       THEN /\ main_pc' = "exit"
            /\ UNCHANGED <<history, current_model, history_file, stack, events>>
       ELSE \E load \in Loads :
            LET model  == ModelOfFlag(argv[1])
                loaded == load.result
                prompt == PromptOf(argv, typed)
            IN  /\ load.file = history_file
                /\ current_model' = model
                /\ IF load.raises
                   THEN /\ main_pc' = "exit"
                        /\ UNCHANGED <<history, history_file, stack, events>>
                   ELSE IF Strip(prompt) = <<>>
                   THEN /\ history' = loaded
                        /\ main_pc' = "exit"
                        /\ UNCHANGED <<history_file, stack, events>>
                   ELSE /\ history' = Append(loaded, Msg(<<"user">>, prompt))
                        /\ history_file' = save_to_history(history_file, <<"user">>, prompt)
                        /\ events' = Append(events, FALSE)
                        /\ stack' = <<NewFrame(prompt, model, Len(events) + 1)>>
                        /\ main_pc' = "chat"
    /\ UNCHANGED <<API_KEYS, behaviour, spawned, written, last_return, prVars, srVars, inVars, sfVars, exVars, hsVars>>

\* the event is not set
left_running(ev, i) == ev

\* stop_event.set()
Stopped(ev, i) == [ev EXCEPT ![i] = TRUE]

\* a join that waits for the thread itself
WaitsForThread(timeout) == ~spinner_hangs

\* thinking_thread.join(timeout=...) returns: the thread has ended (it ends
\* once its event is set, unless it hangs), or the timeout runs out
thread_join(timeout) == timeout \/ ~spinner_hangs

\* an event is left as it is
NotStopped(ev, f) == ev

\* the finally clause of chat_once in frame f (lines 1172-1176); the join in
\* it is made with a timeout
Finally(ev, f) == IF ev[f.stop_thinking] THEN ev ELSE Stopped(ev, f.stop_thinking)

FinallyReturns(ev, f) == ev[f.stop_thinking] \/ thread_join(TRUE)

\* the finally clauses of the frames, the running one first
RECURSIVE Unwind(_, _)
Unwind(ev, frames) ==
    IF frames = <<>> THEN ev
    ELSE Unwind(Finally(ev, frames[Len(frames)]), SubSeq(frames, 1, Len(frames) - 1))

\* lines 1113-1116: a provider without a key
Skip ==
    /\ Running /\ Top.pc = "loop" /\ Top.mi <= Len(Top.models)
    /\ ~API_KEYS[Top.models[Top.mi]]
    /\ stack' = SetTop([Top EXCEPT !.mi = Top.mi + 1])
    /\ UNCHANGED <<history, current_model, history_file, API_KEYS, behaviour, events,
                   spawned, written, last_return, main_pc, prVars, srVars, inVars, sfVars, exVars, hsVars>>

\* lines 1113-1142: one provider attempt, up to the first prompt of the
\* handlers (or the return) when the reply is accepted
Attempt ==
    /\ Running /\ Top.pc = "loop" /\ Top.mi <= Len(Top.models)
    /\ LET model == Top.models[Top.mi]
       IN  /\ API_KEYS[model]
           /\ thread_join(TRUE)
           /\ \E o \in Outcomes :
               LET stopped == Stopped(events, Top.stop_thinking)
                   f1      == [Top EXCEPT !.attempts =
                                   Append(@, [model |-> model, does |-> o.does,
                                              \* not stop_thinking.is_set(), line 1123
                                              indicator |-> ~stopped[Top.stop_thinking],
                                              accepted |-> ~o.failed])]
               IN  /\ o.model = model /\ o.does \in behaviour[model]
                   /\ IF o.failed
                      THEN /\ events' = Append(stopped, FALSE)
                           /\ stack' = SetTop([f1 EXCEPT !.stop_thinking = Len(events) + 1,
                                                         !.mi = Top.mi + 1])
                           /\ UNCHANGED <<history, history_file, current_model>>
                      ELSE /\ events' = stopped
                           /\ history' = Append(history, Msg(<<"assistant">>, o.message))
                           /\ history_file' =
                                  save_to_history(history_file, <<"assistant">>, o.message)
                           /\ current_model' = model
                           /\ stack' = SetTop(CommandAt(
                                  [f1 EXCEPT !.message = o.message,
                                             !.own = Append(@, o.message),
                                             !.commands = o.commands,
                                             !.code_blocks = o.code_blocks,
                                             !.filenames = o.filenames], 1))
    /\ UNCHANGED <<API_KEYS, behaviour, spawned, written, last_return, main_pc, prVars, srVars, inVars, sfVars, exVars, hsVars>>

\* lines 1166-1171: every provider was skipped or failed
Exhausted ==
    /\ Running /\ Top.pc = "loop" /\ Top.mi > Len(Top.models)
    /\ \E fallback_msg \in fallback_response :
        /\ history' = Append(history, Msg(<<"assistant">>, fallback_msg))
        /\ history_file' = save_to_history(history_file, <<"assistant">>, fallback_msg)
        /\ stack' = SetTop([Top EXCEPT !.pc = "return", !.ret = fallback_msg,
                                       !.own = Append(@, fallback_msg)])
    /\ UNCHANGED <<current_model, API_KEYS, behaviour, events, spawned, written, last_return, main_pc,
                   prVars, srVars, inVars, sfVars, exVars, hsVars>>

\* the prompts at which input() is called
InputPcs == {"cmds", "blocks", "shown", "rnm_name", "rnm_confirm", "chmod", "launch"}

\* input() raises EOFError (the standard input is at its end); the handlers
\* do not catch it and the handler of lines 1153-1164 does
InputFails ==
    /\ Running /\ Top.pc \in InputPcs
    /\ FinallyReturns(events, Top)
    /\ events' = Append(Finally(events, Top), FALSE)
    /\ stack' = SetTop([Top EXCEPT !.pc = "loop", !.mi = Top.mi + 1,
                                   !.stop_thinking = Len(events) + 1])
    /\ UNCHANGED <<history, current_model, history_file, API_KEYS, behaviour,
                   spawned, written, last_return, main_pc, prVars, srVars, inVars, sfVars, exVars, hsVars>>

\* handle_commands, lines 960-968
AnswerCommand ==
    /\ Running /\ Top.pc = "cmds"
    /\ \E raw \in Answers, success \in BOOLEAN :
        LET cmd == Top.commands[Top.ci]
        IN  /\ IF Yes(raw)
               THEN /\ spawned' = <<Spawn(cmd, cmd, raw, NoBlock)>>
                    /\ last_return' = <<Returns("execute_command", success)>>
               ELSE /\ success
                    /\ UNCHANGED <<spawned, last_return>>
            /\ stack' = SetTop(CommandAt(Top, Top.ci + 1))
    /\ UNCHANGED <<history, current_model, history_file, API_KEYS, behaviour, events,
                   written, main_pc, prVars, srVars, inVars, sfVars, exVars, hsVars>>

\* the file is offered for execution whether it was written or not
OfferAlways(f, ok, file_path, language) == handle_executable_file(f, file_path, language)

\* lines 1027-1031 and 1038-1044: what follows the return of write_to_file
AfterWrite(f, ok, file_path, language) ==
    IF ok THEN handle_executable_file(f, file_path, language) ELSE NextBlock(f)

\* write_to_file(full_path, content) at lines 1027 and 1038, and what follows
\* it; open() may fail
WriteBlock(raw) ==
    LET block == Top.code_blocks[Top.bi]
    IN  \E ok \in BOOLEAN :
            IF ok
            THEN /\ written' = <<[path |-> Top.full_path, content |-> block.content,
                              shown |-> Top.suggested_filename, answer |-> raw]>>
                 /\ last_return' = <<Returns("write_to_file", TRUE)>>
                 /\ stack' = SetTop(AfterWrite(Top, ok, Top.full_path, block.language))
            ELSE /\ written' = written
                 /\ last_return' = <<Returns("write_to_file", FALSE)>>
                 /\ stack' = SetTop(AfterWrite(Top, ok, Top.full_path, block.language))

\* lines 1004-1046: what a choice other than "e" leads to
Decide(raw) ==
    LET choice == Choice(raw)
    IN  IF choice # <<>> /\ choice[1] = "r" /\ choice # <<"r", "n", "m">>
        THEN IF IsEdit(choice)
             THEN /\ EnterChat(<<"qingxiugaidaima:">> \o Strip(Tail(choice)),
                               SetTop([Top EXCEPT !.pc = "nested"]))
                  /\ UNCHANGED <<written, last_return, current_model>>
             ELSE /\ stack' = SetTop(NextBlock(Top))
                  /\ UNCHANGED <<history, history_file, events, written, last_return, current_model>>
        ELSE IF choice = <<"r", "n", "m">>
        THEN /\ stack' = SetTop([Top EXCEPT !.pc = "rnm_name"])
             /\ UNCHANGED <<history, history_file, events, written, last_return, current_model>>
        ELSE IF choice = <<"y">>
        THEN /\ WriteBlock(raw)
             /\ UNCHANGED <<history, history_file, events, current_model>>
        ELSE /\ stack' = SetTop(NextBlock(Top))
             /\ UNCHANGED <<history, history_file, events, written, last_return, current_model>>

\* the requests to modify a block made so far
Edits == {i \in DOMAIN history : /\ history[i].role = <<"user">>
                                 /\ history[i].content[1] = "qingxiugaidaima:"}

\* the answers that the bound on the requests allows
Allowed == {raw \in Answers : IsEdit(Choice(raw)) => Cardinality(Edits) < MaxEdits}

\* handle_code_blocks, lines 995-1002: the first prompt for a block
AnswerBlock ==
    /\ Running /\ Top.pc = "blocks"
    /\ \E raw \in Allowed :
        IF Choice(raw) = <<"e">>
        THEN /\ stack' = SetTop([Top EXCEPT !.pc = "shown"])
             /\ UNCHANGED <<history, history_file, events, written, last_return, current_model>>
        ELSE Decide(raw)
    /\ UNCHANGED <<API_KEYS, behaviour, spawned, main_pc, prVars, srVars, inVars, sfVars, exVars, hsVars>>

\* line 1002: the prompt after the content was shown
AnswerShown ==
    /\ Running /\ Top.pc = "shown"
    /\ \E raw \in Allowed : Decide(raw)
    /\ UNCHANGED <<API_KEYS, behaviour, spawned, main_pc, prVars, srVars, inVars, sfVars, exVars, hsVars>>

\* lines 1016-1025 and 1035
AnswerName ==
    /\ Running /\ Top.pc = "rnm_name"
    /\ \E raw \in FileNames :
        LET new_filename == Strip(raw)
            full_path    == join(current_dir, new_filename)
        IN  stack' = SetTop(IF new_filename # <<>>
                            THEN [Top EXCEPT !.pc = "rnm_confirm",
                                             !.full_path = full_path,
                                             !.suggested_filename = basename(full_path)]
                            ELSE NextBlock(Top))
    /\ UNCHANGED <<history, current_model, history_file, API_KEYS, behaviour, events,
                   spawned, written, last_return, main_pc, prVars, srVars, inVars, sfVars, exVars, hsVars>>

\* lines 1026-1033
AnswerRename ==
    /\ Running /\ Top.pc = "rnm_confirm"
    /\ \E raw \in Answers :
        IF Yes(raw) THEN WriteBlock(raw)
        ELSE stack' = SetTop(NextBlock(Top)) /\ UNCHANGED <<written, last_return>>
    /\ UNCHANGED <<history, current_model, history_file, API_KEYS, behaviour, events,
                   spawned, main_pc, prVars, srVars, inVars, sfVars, exVars, hsVars>>

\* handle_executable_file, lines 1058-1065: chmod +x, whose exit status
\* decides whether the launch is offered
AnswerChmod ==
    /\ Running /\ Top.pc = "chmod"
    /\ \E raw \in Answers, success \in BOOLEAN :
        IF Yes(raw)
        THEN /\ spawned' = <<Spawn(Top.cmd, Top.cmd, raw, NoBlock)>>
             /\ last_return' = <<Returns("execute_command", success)>>
             /\ stack' = SetTop(IF success
                                THEN [Top EXCEPT !.pc = "launch", !.cmd = Top.full_path]
                                ELSE NextBlock(Top))
        ELSE /\ success
             /\ UNCHANGED <<spawned, last_return>>
             /\ stack' = SetTop(NextBlock(Top))
    /\ UNCHANGED <<history, current_model, history_file, API_KEYS, behaviour, events,
                   written, main_pc, prVars, srVars, inVars, sfVars, exVars, hsVars>>

\* lines 1066-1067, 1074-1075, 1082-1083: the file is run
AnswerLaunch ==
    /\ Running /\ Top.pc = "launch"
    /\ \E raw \in Answers, success \in BOOLEAN :
        /\ IF Yes(raw)
           THEN /\ spawned' = <<Spawn(Top.cmd, Top.cmd, raw, Top.code_blocks[Top.bi])>>
                /\ last_return' = <<Returns("execute_command", success)>>
           ELSE /\ success
                /\ UNCHANGED <<spawned, last_return>>
        /\ stack' = SetTop(NextBlock(Top))
    /\ UNCHANGED <<history, current_model, history_file, API_KEYS, behaviour, events,
                   written, main_pc, prVars, srVars, inVars, sfVars, exVars, hsVars>>

\* lines 1152/1171 and 1172-1176: chat_once returns to main or to line 1010
Return ==
    /\ Running /\ Top.pc = "return"
    /\ FinallyReturns(events, Top)
    /\ events' = Finally(events, Top)
    /\ IF Len(stack) = 1
       THEN stack' = <<>> /\ main_pc' = "exit"
       ELSE /\ stack' = [i \in 1..(Len(stack) - 1) |->
                            IF i = Len(stack) - 1 THEN NextBlock(stack[i]) ELSE stack[i]]
            /\ main_pc' = main_pc
    /\ UNCHANGED <<history, current_model, history_file, API_KEYS, behaviour,
                   spawned, written, last_return, prVars, srVars, inVars, sfVars, exVars, hsVars>>

\* Ctrl+C while chat_once runs: signal_handler (lines 196-202) calls
\* sys.exit(0), and SystemExit, which "except Exception" does not catch, leaves
\* every activation through its finally clause
Interrupt ==
    /\ Running
    /\ \A k \in DOMAIN stack : FinallyReturns(events, stack[k])
    /\ events' = Unwind(events, stack)
    /\ stack' = <<>>
    /\ main_pc' = "exit"
    /\ UNCHANGED <<history, current_model, history_file, API_KEYS, behaviour,
                   spawned, written, last_return, prVars, srVars, inVars, sfVars, exVars, hsVars>>

\* the steps of the main thread: a provider call that returns, a prompt that
\* is answered, a return
Proceed ==
    \/ Main \/ Skip \/ Attempt \/ Exhausted
    \/ AnswerCommand \/ AnswerBlock \/ AnswerShown \/ AnswerName \/ AnswerRename
    \/ AnswerChmod \/ AnswerLaunch \/ Return

Next == Proceed \/ InputFails \/ Interrupt

(***************************************************************************)
(* The start of a run                                                       *)
(***************************************************************************)
\* the command lines of a run, without the program name
Args == {<<>>, <<<<"--test">>>>, <<<<"z">>, <<"hi">>>>, <<<<"g">>, <<SP>>>>, <<<<"x">>>>,
         <<<<"g">>, <<"hi">>>>, <<<<"d">>, <<"hi">>>>}

SessionStart ==
    /\ argv \in Args
    /\ typed \in {<<>>, <<"hi">>}
    /\ Len(argv) # 1 => typed = <<>>
    /\ spinner_hangs = TRUE
    /\ rt_block = NoBlock
    /\ history = <<Msg(<<"system">>, SYSTEM_PROMPT)>>
    /\ current_model = "openai"
    /\ history_file \in InitialLogs
    /\ behaviour \in FallbackConfigs \cup ExecConfigs \cup {ErrorLikeConfig}
    \* the services that reply with code blocks are met on the command line "d hi"
    /\ behaviour \in ExecConfigs => argv = <<<<"d">>, <<"hi">>>>
    /\ behaviour = ErrorLikeConfig => argv = <<<<"g">>, <<"hi">>>>
    /\ API_KEYS = [p \in Providers |-> behaviour[p] # {}]
    /\ stack = <<>>
    /\ events = <<>>
    /\ spawned = <<>>
    /\ written = <<>>
    /\ last_return = <<>>
    /\ main_pc = "start"

SessionIdle ==
    /\ history = <<>> /\ current_model = "openai" /\ history_file = <<>>
    /\ API_KEYS = [p \in Providers |-> FALSE]
    /\ behaviour = [p \in Providers |-> {}]
    /\ stack = <<>> /\ events = <<>> /\ spawned = <<>> /\ written = <<>>
    /\ last_return = <<>>
    /\ main_pc = "idle"

StreamIdle ==
    /\ sr_model = "deepseek" /\ sr_key = FALSE /\ sr_connected = FALSE
    /\ sr_lines = <<>> /\ sr_i = 0 /\ full_message = <<>>
    /\ sr_result = <<>> /\ sr_pc = "idle"

ParseIdle ==
    /\ pr_response = <<>> /\ pr_code_blocks = <<>> /\ pr_commands = <<>>
    /\ pr_pc = "idle"

ExecIdle ==
    /\ ex_prog = <<>> /\ ex_status = 0 /\ ex_out = 0 /\ ex_err = 0
    /\ ex_child = "exited" /\ ex_pc = "idle" /\ ex_success = FALSE

\* no block is serialized and nothing was passed to save_to_history
HistoryIdle ==
    /\ hs_log = <<>> /\ hs_file = <<>> /\ hs_saved = <<>> /\ hs_result = <<>>
    /\ hs_pc = "idle"

InputsIdle ==
    /\ argv = <<>> /\ typed = <<>> /\ spinner_hangs = FALSE
    /\ rt_block = NoBlock

SuggestIdle == sf_block = NoBlock /\ sf_name = <<>> /\ sf_pc = "idle"

(***************************************************************************)
(* suggest_filename applied to one block                                    *)
(***************************************************************************)
MaxBodyLen == 4

\* the tags of the blocks; "Bash" is lower-cased by line 641, "zz" is not in
\* the table of lines 645-666
SuggestLanguages == {<<"python">>, <<"js">>, <<"html">>, <<"Bash">>, <<"c">>, <<"zz">>}

SuggestAlphabet == {"#", "filename", ":", SP, "def", "main", "class", "Foo", "function"}

\* longer contents: a directive in each comment syntax, one of them before a
\* main function
SuggestExamples ==
    {<<"/*", SP, "filename", ":", SP, "Foo", SP, "*/">>,
     <<"<!--", SP, "filename", ":", SP, "Foo", SP, "-->">>,
     <<"/", "/", SP, "filename", ":", "Foo", NL, "def", SP, "main">>,
     <<"class", SP, "Foo", NL, "def", SP, "main">>}

SuggestStart ==
    /\ sf_block \in [language : SuggestLanguages,
                      content  : SeqsUpTo(SuggestAlphabet, MaxBodyLen) \cup SuggestExamples]
    /\ sf_name = <<>>
    /\ sf_pc = "start"

Suggest ==
    /\ sf_pc = "start"
    /\ sf_name' = suggest_filename(sf_block)
    /\ sf_pc' = "done"
    /\ UNCHANGED <<sf_block, prVars, srVars, seVars, inVars, exVars, hsVars>>

SuggestNext == Suggest

SuggestInit ==
    SuggestStart /\ StreamIdle /\ ParseIdle /\ SessionIdle /\ ExecIdle /\ InputsIdle /\ HistoryIdle

(***************************************************************************)
(* execute_command and the child process it starts.  The unit of output is   *)
(* one line; a pipe holds at most PipeCap lines, and a write to a full pipe  *)
(* blocks the child until the parent reads.                                  *)
(***************************************************************************)
PipeCap   == 2
MaxWrites == 4

\* the child writes its lines in order, then exits with ex_status
ExecStart ==
    /\ ex_prog \in SeqsUpTo({"out", "err"}, MaxWrites)
    /\ ex_status \in {0, 1}
    /\ ex_out = 0 /\ ex_err = 0
    /\ ex_child = "running"
    /\ ex_pc = "stdout"
    /\ ex_success = FALSE

\* the child writes its next line to the pipe of stdout or of stderr
ChildWrite ==
    /\ ex_child = "running" /\ ex_prog # <<>>
    /\ IF Head(ex_prog) = "out"
       THEN ex_out < PipeCap /\ ex_out' = ex_out + 1 /\ ex_err' = ex_err
       ELSE ex_err < PipeCap /\ ex_err' = ex_err + 1 /\ ex_out' = ex_out
    /\ ex_prog' = Tail(ex_prog)
    /\ UNCHANGED <<ex_status, ex_child, ex_pc, ex_success,
                   prVars, srVars, seVars, inVars, sfVars, hsVars>>

\* the child exits, which closes its ends of both pipes
ChildExit ==
    /\ ex_child = "running" /\ ex_prog = <<>>
    /\ ex_child' = "exited"
    /\ UNCHANGED <<ex_prog, ex_status, ex_out, ex_err, ex_pc, ex_success,
                   prVars, srVars, seVars, inVars, sfVars, hsVars>>

\* lines 538-541: process.stdout.readline() returns a line, or "" at the end
\* of the stream, which ends the loop; it blocks while the pipe is empty and
\* the child has it open
ReadStdout ==
    /\ ex_pc = "stdout"
    /\ IF ex_out > 0 THEN ex_out' = ex_out - 1 /\ ex_pc' = ex_pc
       ELSE ex_child = "exited" /\ ex_out' = ex_out /\ ex_pc' = "stderr"
    /\ UNCHANGED <<ex_prog, ex_status, ex_err, ex_child, ex_success,
                   prVars, srVars, seVars, inVars, sfVars, hsVars>>

\* lines 544-547: the same loop on process.stderr
ReadStderr ==
    /\ ex_pc = "stderr"
    /\ IF ex_err > 0 THEN ex_err' = ex_err - 1 /\ ex_pc' = ex_pc
       ELSE ex_child = "exited" /\ ex_err' = ex_err /\ ex_pc' = "wait"
    /\ UNCHANGED <<ex_prog, ex_status, ex_out, ex_child, ex_success,
                   prVars, srVars, seVars, inVars, sfVars, hsVars>>

\* lines 550-562: process.wait(), success = return_code == 0, return
Wait ==
    /\ ex_pc = "wait" /\ ex_child = "exited"
    /\ ex_success' = (ex_status = 0)
    /\ ex_pc' = "done"
    /\ UNCHANGED <<ex_prog, ex_status, ex_out, ex_err, ex_child,
                   prVars, srVars, seVars, inVars, sfVars, hsVars>>

ExecNext == ChildWrite \/ ChildExit \/ ReadStdout \/ ReadStderr \/ Wait

ExecInit ==
    ExecStart /\ StreamIdle /\ ParseIdle /\ SessionIdle /\ InputsIdle /\ HistoryIdle /\ SuggestIdle

(***************************************************************************)
(* Messages saved to a history file, and the file loaded                     *)
(***************************************************************************)
MaxSaved  == 2
MaxLogLen == 2

Roles == {<<"user">>, <<"assistant">>}
SavedContents == {<<"hi">>, <<"a", NL, "b">>, <<BSL, "n", QUOTE>>}

\* lines a file may hold: a record, a record without "time", an empty line,
\* text that is not JSON, a cut record, an object without the keys, a number
LogLines ==
    {HistoryLine(<<"user">>, <<"old">>),
     dumps(<< <<<<"role">>, <<"user">>>>, <<<<"content">>, <<"old">>>> >>),
     <<>>, <<"old">>, <<"{", QUOTE, "role", QUOTE, ":">>,
     <<"{", "}">>, <<"5">>}

HistoryStart ==
    /\ hs_log \in SeqsUpTo(LogLines, MaxLogLen)
    /\ hs_file = hs_log
    /\ hs_saved = <<>> /\ hs_result = <<>> /\ hs_pc = "start"

\* one call of save_to_history
Save ==
    /\ hs_pc = "start" /\ Len(hs_saved) < MaxSaved
    /\ \E role \in Roles, content \in SavedContents :
         /\ hs_file' = save_to_history(hs_file, role, content)
         /\ hs_saved' = Append(hs_saved, Msg(role, content))
    /\ UNCHANGED <<hs_log, hs_result, hs_pc, prVars, srVars, seVars, inVars, sfVars, exVars>>

\* one call of load_history
Load ==
    /\ hs_pc = "start"
    /\ IF LoadRaises(hs_file)
       THEN hs_pc' = "raised" /\ UNCHANGED hs_result
       ELSE hs_pc' = "loaded" /\ hs_result' = load_history(hs_file)
    /\ UNCHANGED <<hs_log, hs_file, hs_saved, prVars, srVars, seVars, inVars, sfVars, exVars>>

HistoryNext == Save \/ Load

HistoryInit ==
    HistoryStart /\ StreamIdle /\ ParseIdle /\ SessionIdle /\ ExecIdle /\ InputsIdle /\ SuggestIdle

(***************************************************************************)
(* A fenced block written out and parsed back                                *)
(***************************************************************************)
MaxContentLen == 2

\* the keys of the extensions table of suggest_filename (lines 645-666) and
\* the tag "text"
KnownTags ==
    {<<"python">>, <<"py">>, <<"javascript">>, <<"js">>, <<"typescript">>, <<"ts">>,
     <<"html">>, <<"css">>, <<"json">>, <<"bash">>, <<"shell">>, <<"sh">>, <<"ruby">>,
     <<"go">>, <<"java">>, <<"c">>, <<"cpp">>, <<"c", "+", "+">>, <<"rust">>, <<"rs">>,
     <<"text">>}

\* the content holds a newline followed by a fence
HasClosingFence(content) ==
    \E i \in 1..(Len(content) - 1) : content[i] = NL /\ content[i + 1] = FENCE

Contents == {c \in SeqsUpTo({NL, FENCE, "ls"}, MaxContentLen) : ~HasClosingFence(c)}

\* fence, tag, newline, content, newline, fence
Serialize(block) == <<FENCE>> \o block.language \o <<NL>> \o block.content \o <<NL, FENCE>>

RoundTripStart ==
    /\ rt_block \in [language : KnownTags, content : Contents]
    /\ pr_response = Serialize(rt_block)
    /\ pr_code_blocks = <<>>
    /\ pr_commands = <<>>
    /\ pr_pc = "start"
    /\ argv = <<>> /\ typed = <<>> /\ spinner_hangs = FALSE

RoundTripInit ==
    RoundTripStart /\ StreamIdle /\ SessionIdle /\ ExecIdle /\ HistoryIdle /\ SuggestIdle

Init == SessionStart /\ StreamIdle /\ ParseIdle /\ ExecIdle /\ HistoryIdle /\ SuggestIdle
ParseInit ==
    ParseStart /\ StreamIdle /\ SessionIdle /\ ExecIdle /\ InputsIdle /\ HistoryIdle /\ SuggestIdle
StreamInit ==
    StreamStart /\ ParseIdle /\ SessionIdle /\ ExecIdle /\ InputsIdle /\ HistoryIdle /\ SuggestIdle

\* one run of the program
Spec == Init /\ [][Next]_vars
\* process_response on every text within the bounds
\* the main thread takes a step whenever it can: the provider calls return,
\* every prompt is answered and every command that is run returns; a prompt
\* may also fail and the run may be interrupted, at any time or never
\* the runs "d hi" in which the services fail, say hello, or reply with a
\* command or a script
LiveInit ==
    /\ Init
    /\ argv = <<<<"d">>, <<"hi">>>>
    /\ behaviour \in FallbackConfigs \cup {ScriptConfig}

SpecLive == LiveInit /\ [][Next]_vars /\ WF_vars(Proceed)

SpecParse == ParseInit /\ [][ParseNext]_vars
\* stream_response on every stream within the bounds
SpecRoundTrip == RoundTripInit /\ [][ParseNext]_vars

\* the child and the parent both run whenever they are not blocked
SpecExec == ExecInit /\ [][ExecNext]_vars /\ WF_vars(ExecNext)

SpecHistory == HistoryInit /\ [][HistoryNext]_vars

SpecStream == StreamInit /\ [][StreamNext]_vars

SpecSuggest == SuggestInit /\ [][SuggestNext]_vars

(***************************************************************************)
(* Properties                                                               *)
(***************************************************************************)
Frames == {stack[i] : i \in DOMAIN stack}

\* the activations of chat_once that have reached their return
Returned == {f \in Frames : f.pc = "return"}

HasKey(f) == {i \in 1..Len(f.models) : API_KEYS[f.models[i]]}

\* the providers of a turn that have a key, in the order of the trial list
Keyed(f) == SelectSeq(f.models, LAMBDA m : API_KEYS[m])

FailingServices == {ConnectFails, ReadFails}

\* the last message of the conversation and of the log is an assistant
\* message with this content
Persisted(content) ==
    /\ history # <<>> /\ history[Len(history)] = Msg(<<"assistant">>, content)
    /\ history_file # <<>>
    /\ history_file[Len(history_file)] = HistoryLine(<<"assistant">>, content)

\* C1: in a turn whose first provider with a key (A) fails, before any data
\* or while the stream is read, and whose next provider with a key (B)
\* replies with the text t, the only assistant message the turn appends and
\* persists is t, and the preferred provider after the turn is B.
C1_FallbackCorrectness ==
    \A f \in Returned :
        (/\ Len(stack) = 1
         /\ Len(Keyed(f)) >= 2
         /\ behaviour[Keyed(f)[1]] \in {{x} : x \in FailingServices}
         /\ behaviour[Keyed(f)[2]] = {Replies(TextHello)})
        => /\ f.own = <<TextHello>>
           /\ Persisted(TextHello)
           /\ current_model = Keyed(f)[2]

\* C2: no string that is_dangerous_command classifies as dangerous is in
\* the command list process_response returns, and execute_command is never
\* called with one, whatever is answered at the prompts.
C2_DangerousNeverSpawned ==
    /\ \A f \in Frames : \A k \in DOMAIN f.commands : ~is_dangerous_command(f.commands[k])
    /\ \A i \in DOMAIN spawned : ~is_dangerous_command(spawned[i].cmd)

\* C3: the content of a block flagged as a command block that
\* is_dangerous_command classifies as dangerous is never run by a child
\* process: no call of execute_command launches the file that write_to_file
\* filled with it.
C3_DangerousBlockRefused ==
    \A i \in DOMAIN spawned :
        LET s == spawned[i]
        IN  ~(/\ s.block.is_command
              /\ is_dangerous_command(s.block.content)
              /\ \E j \in DOMAIN written :
                    written[j].path = s.cmd /\ written[j].content = s.block.content)

\* the prompt before a call of execute_command shows the command, and the
\* one before a call of write_to_file shows the name of the file
NamesTarget ==
    /\ \A i \in DOMAIN spawned : spawned[i].shown = spawned[i].cmd
    /\ \A i \in DOMAIN written : written[i].shown = basename(written[i].path)

\* C4 (as stated): every call of execute_command and every file write is
\* immediately preceded by an answer of exactly "y" to the prompt that names
\* the command or the file.
C4_ExactlyY ==
    /\ NamesTarget
    /\ \A i \in DOMAIN spawned : spawned[i].answer = <<"y">>
    /\ \A i \in DOMAIN written : written[i].answer = <<"y">>

\* C4 (amended): every call of execute_command and every file write is
\* immediately preceded by an answer to the prompt that names the command
\* or the file, and the answer is "y" once surrounding whitespace is removed
\* and letters are lower-cased; after any other answer there is no call.
C4_ApprovedByY ==
    /\ NamesTarget
    /\ \A i \in DOMAIN spawned : Lower(Strip(spawned[i].answer)) = <<"y">>
    /\ \A i \in DOMAIN written : Lower(Strip(written[i].answer)) = <<"y">>

\* a command was run and a file written, one of them after the answer " Y"
C4_Witness ==
    /\ spawned # <<>> /\ written # <<>>
    /\ spawned[1].answer = <<SP, "Y">>
    /\ written[1].answer = <<"y">>

\* C5: within a turn no provider is attempted after one whose reply was
\* appended to the conversation, whatever the later steps of the turn do.
C5_NoAttemptAfterSuccess ==
    \A f \in Frames :
        \A i \in DOMAIN f.attempts : f.attempts[i].accepted => i = Len(f.attempts)

\* the list [preferred, deepseek, xai, openai] without its repetitions
TrialOrder(preferred) ==
    CASE preferred = "deepseek" -> <<"deepseek", "xai", "openai">>
      [] preferred = "xai"      -> <<"xai", "deepseek", "openai">>
      [] preferred = "openai"   -> <<"openai", "deepseek", "xai">>

IndexIn(seq, x) == CHOOSE i \in DOMAIN seq : seq[i] = x

\* C6: the providers attempted in a turn are, in order, a subsequence of
\* the list [preferred, deepseek, xai, openai] without repetitions: none is
\* attempted twice, and none is attempted without a key.
C6_TrialOrder ==
    \A f \in Frames :
        LET order == TrialOrder(f.preferred)
        IN  /\ \A i \in DOMAIN f.attempts : API_KEYS[f.attempts[i].model]
            /\ \A i, j \in DOMAIN f.attempts :
                   i < j => IndexIn(order, f.attempts[i].model)
                            < IndexIn(order, f.attempts[j].model)

\* a turn that preferred xai skipped it for lack of a key and attempted
\* both of the others
C6_Witness ==
    \E f \in Returned :
        /\ f.preferred = "xai" /\ ~API_KEYS["xai"]
        /\ Len(f.attempts) = 2
        /\ f.attempts[1].model = "deepseek" /\ f.attempts[2].model = "openai"

\* C7: a turn in which every provider is skipped for lack of a key or fails
\* appends and persists exactly one assistant message, one of the values of
\* fallback_response, and returns it.
C7_FallbackMessage ==
    \A f \in Returned :
        (/\ Len(stack) = 1
         /\ \A i \in HasKey(f) : behaviour[f.models[i]] \subseteq FailingServices)
        => /\ f.ret \in fallback_response
           /\ f.own = <<f.ret>>
           /\ Persisted(f.ret)

\* the fragments of the data lines with a content that precede the first
\* terminator, in order
RECURSIVE FragmentsBeforeDone(_)
FragmentsBeforeDone(lines) ==
    IF lines = <<>> \/ Head(lines).k = "done" THEN <<>>
    ELSE (IF Head(lines).k = "content" THEN Head(lines).c ELSE <<>>)
         \o FragmentsBeforeDone(Tail(lines))

\* C8: for every sequence of lines received, stream_response returns the
\* fragments of the well-formed data lines before the first terminator, in
\* order; no other line drops a fragment or keeps a later one out.
C8_Aggregation ==
    (/\ sr_pc = "done" /\ sr_key /\ sr_connected
     /\ \A i \in DOMAIN sr_lines : sr_lines[i].k # "ioerror")
    => sr_result = FragmentsBeforeDone(sr_lines)

\* the lines of text that do not lie inside the content of a block, from
\* the line that starts at token s on
RECURSIVE LinesOutside(_, _, _)
LinesOutside(text, s, blocks) ==
    LET nls    == {i \in s..Len(text) : text[i] = NL}
        e      == IF nls = {} THEN Len(text) + 1
                  ELSE CHOOSE i \in nls : \A j \in nls : i <= j
        inside == \E k \in DOMAIN blocks :
                      /\ blocks[k].end - 1 - Len(blocks[k].content) <= s
                      /\ e - 1 <= blocks[k].end - 2
    IN  (IF inside THEN <<>> ELSE <<SubSeq(text, s, e - 1)>>)
        \o (IF e > Len(text) THEN <<>> ELSE LinesOutside(text, e + 1, blocks))

\* C9: process_response takes commands only from the lines outside every
\* fenced block: a line starting with "!" or "$" inside a block is in the
\* content of the block and not in the command list.
C9_CommandsOutsideBlocks ==
    pr_pc = "done"
    => pr_commands = CommandsOfLines(LinesOutside(pr_response, 1, pr_code_blocks))

\* the fenced regions of a text: an opening fence, a tag (anything up to the
\* end of the line), and the content up to the first line that starts with
\* a fence
RECURSIVE Regions(_, _)
Regions(text, from) ==
    LET TagEnd(i)  == CHOOSE t \in (i + 1)..(Len(text) + 1) :
                          /\ \A k \in (i + 1)..(t - 1) : text[k] \notin {NL, FENCE}
                          /\ (t = Len(text) + 1 \/ text[t] \in {NL, FENCE})
        Closers(i) == {e \in (TagEnd(i) + 1)..(Len(text) - 1) :
                          text[e] = NL /\ text[e + 1] = FENCE}
        Opens(i)   == /\ text[i] = FENCE
                      /\ TagEnd(i) <= Len(text) /\ text[TagEnd(i)] = NL
                      /\ Closers(i) # {}
        starts     == {i \in from..Len(text) : Opens(i)}
    IN  IF starts = {} THEN <<>>
        ELSE LET i   == CHOOSE k \in starts : \A j \in starts : k <= j
                 e   == CHOOSE k \in Closers(i) : \A j \in Closers(i) : k <= j
                 tag == SubSeq(text, i + 1, TagEnd(i) - 1)
             IN  <<[language   |-> IF tag = <<>> THEN <<"text">>
                                   ELSE IF tag = <<"mingling">> THEN <<"bash">>
                                   ELSE tag,
                    content    |-> SubSeq(text, TagEnd(i) + 1, e - 1),
                    is_command |-> tag = <<"mingling">>]>>
                 \o Regions(text, e + 2)

Candidate(block) ==
    [language |-> block.language, content |-> block.content,
     is_command |-> block.is_command]

\* C10: detect_code_blocks returns one candidate per fenced region, in
\* order, with the content of the region, its tag as language ("text" when
\* there is none), and a region tagged as a command as bash with is_command
\* set; the bash block "ls -la" followed by the line "$ rm -rf /" gives one
\* block (bash, "ls -la") and no command.
C10_OneBlockPerRegion ==
    pr_pc = "done"
    => /\ [k \in DOMAIN pr_code_blocks |-> Candidate(pr_code_blocks[k])]
              = Regions(pr_response, 1)
       /\ pr_response = ExampleText
              => /\ Len(pr_code_blocks) = 1
                 /\ Candidate(pr_code_blocks[1]) =
                        [language |-> <<"bash">>, content |-> <<"ls", SP, "-la">>,
                         is_command |-> FALSE]
                 /\ pr_commands = <<>>

\* C11: a block with a known language tag and a content without a closing
\* fence, written as fence, tag, newline, content, newline, fence, is parsed
\* back by detect_code_blocks into a first block with the same content.
C11_RoundTrip ==
    pr_pc = "done" =>
        /\ pr_code_blocks # <<>>
        /\ pr_code_blocks[1].content = rt_block.content

\* C12: starting from an empty log, once save_to_history has been called for
\* m1..mn in that order, load_history returns the System message followed by
\* m1..mn with the same roles and contents, in the same order.
C12_HistoryReplay ==
    hs_log = <<>> /\ hs_pc # "start" =>
        /\ hs_pc = "loaded"
        /\ hs_result = <<Msg(<<"system">>, SYSTEM_PROMPT)>> \o hs_saved

C12_Witness ==
    /\ hs_log = <<>> /\ hs_pc = "loaded"
    /\ Len(hs_saved) = MaxSaved
    /\ hs_saved[1].content = <<"a", NL, "b">>
    /\ hs_saved[2].content = <<BSL, "n", QUOTE>>

\* the messages the claim of C14 expects from one line: that of a {time,
\* role, content} record, none from any other line
RecordsOf(line) ==
    LET fits == {m \in [role : Roles, content : SavedContents \cup {<<"old">>}] :
                     line = HistoryLine(m.role, m.content)}
    IN  IF fits = {} THEN <<>> ELSE <<CHOOSE m \in fits : TRUE>>

RECURSIVE RecordsOfLog(_)
RecordsOfLog(file) ==
    IF file = <<>> THEN <<>> ELSE RecordsOf(Head(file)) \o RecordsOfLog(Tail(file))

\* C14: for any log content load_history completes and returns the System
\* message followed by exactly the messages of the lines that are {time,
\* role, content} records, in log order; no line aborts the load.
C14_LoadSkipsBadLines ==
    hs_saved = <<>> /\ hs_pc # "start" =>
        /\ hs_pc = "loaded"
        /\ hs_result = <<Msg(<<"system">>, SYSTEM_PROMPT)>> \o RecordsOfLog(hs_log)

IsPrefix(s, t) == Len(s) <= Len(t) /\ SubSeq(t, 1, Len(s)) = s

\* C13: element 0 of the conversation is always the System message, and once
\* main has loaded the history every step leaves the conversation as it was or
\* appends to it: nothing is removed, reordered or rewritten.
C13_SystemFirstAppendOnly ==
    /\ [](history # <<>> /\ history[1] = Msg(<<"system">>, SYSTEM_PROMPT))
    /\ [][main_pc # "start" => IsPrefix(history, history')]_vars

\* a nested turn has appended its request and a reply after the first turn's
C13_Witness ==
    /\ Len(stack) = 2
    /\ Len(history) >= 6
    /\ history[Len(history)].role = <<"assistant">>

\* C15: whenever chat_once has returned or has been left by an exception,
\* every stop event created by that activation is set: an event that is not
\* set is the current stop_thinking of an activation that is still running.
C15_IndicatorsStopped ==
    \A i \in DOMAIN events :
        ~events[i] => \E k \in DOMAIN stack : stack[k].stop_thinking = i

\* the program is over after a turn that started several indicator threads
C15_Witness ==
    /\ main_pc = "exit" /\ stack = <<>>
    /\ Len(events) >= 3
    /\ \A i \in DOMAIN events : events[i]

C17_ExecuteReturns ==
    /\ <>(ex_pc = "done")
    /\ [](ex_pc = "done" => ex_child = "exited" /\ (ex_success <=> ex_status = 0))

\* the selector is missing or is none of g, d, x, or the prompt is empty or
\* only whitespace
NoTurnInput ==
    \/ argv = <<>>
    \/ argv[1] \notin {<<"g">>, <<"d">>, <<"x">>}
    \/ \A i \in DOMAIN PromptOf(argv, typed) : PromptOf(argv, typed)[i] \in {SP, NL}

\* C18: when the selector is missing or is not g, d or x, or the prompt is
\* empty or whitespace, main ends without a turn: chat_once is never entered,
\* so no provider is attempted, no indicator is started, nothing is run or
\* written, no message is appended to the conversation (it is the initial one
\* or the loaded one) and the history file stays as it was.
C18_NoTurn ==
    NoTurnInput =>
        /\ main_pc \in {"start", "exit"}
        /\ stack = <<>> /\ events = <<>> /\ spawned = <<>> /\ written = <<>>
        /\ history_file \in InitialLogs
        /\ history \in {<<Msg(<<"system">>, SYSTEM_PROMPT)>>, load_history(history_file)}

\* main is over on a valid selector and a prompt of one space
C18_Witness ==
    /\ main_pc = "exit"
    /\ argv = <<<<"g">>, <<SP>>>>
    /\ history = load_history(history_file)

\* the activation is at a prompt about a code block, or in the nested turn
\* that a code block started
BlockPcs == {"blocks", "shown", "rnm_name", "rnm_confirm", "chmod", "launch", "nested"}

\* one step of an activation, from f to g, on the response it has accepted
InOrder(f, g) ==
    /\ f.pc = "cmds" /\ g.pc = "cmds" => g.ci = f.ci + 1
    /\ f.pc = "cmds" /\ g.pc \in BlockPcs \cup {"return"} => f.ci = Len(f.commands)
    /\ f.pc = "cmds" /\ g.pc \in BlockPcs => g.pc = "blocks" /\ g.bi = 1
    /\ f.pc \in BlockPcs => g.pc # "cmds"
    /\ f.pc \in BlockPcs /\ g.pc \in BlockPcs => g.bi = f.bi \/ (g.bi = f.bi + 1 /\ g.pc = "blocks")
    /\ f.pc \in BlockPcs /\ g.pc = "return" => f.bi = Len(f.code_blocks)

\* the step in which an activation accepts a response
FromTheStart(g) ==
    /\ g.pc = "cmds" => g.ci = 1
    /\ g.pc \in BlockPcs => g.commands = <<>> /\ g.pc = "blocks" /\ g.bi = 1
    /\ g.pc = "return" => g.commands = <<>> /\ g.code_blocks = <<>>

\* C19: within one turn the commands of the response are put to the user one
\* by one in the order of the list, each is run or dropped before the next,
\* and the first code block is presented only after the last command; the
\* code blocks are then presented one by one in the order of the list.
C19_CommandsThenBlocks ==
    [][\A k \in DOMAIN stack \cap DOMAIN stack' :
          IF stack'[k].attempts = stack[k].attempts
          THEN InOrder(stack[k], stack'[k])
          ELSE stack'[k].attempts[Len(stack'[k].attempts)].accepted
                   => FromTheStart(stack'[k])]_vars

\* the first block is presented after the second of two commands was run
C19_Witness ==
    /\ Running /\ Top.pc = "blocks" /\ Top.bi = 1
    /\ Len(Top.commands) = 2 /\ Top.ci = 2
    /\ spawned # <<>> /\ spawned[1].cmd = Top.commands[2]

\* the step starts a nested turn on the modification text m
StartsNested(m) ==
    /\ Len(stack') = Len(stack) + 1
    /\ Top.pc \in {"blocks", "shown"}
    /\ stack'[Len(stack)] = [Top EXCEPT !.pc = "nested"]
    /\ \A k \in 1..(Len(stack) - 1) : stack'[k] = stack[k]
    /\ stack'[Len(stack')].prompt = <<"qingxiugaidaima:">> \o m
    /\ history' = Append(history, Msg(<<"user">>, <<"qingxiugaidaima:">> \o m))

\* C20: an activation of chat_once is started under another one only by the
\* answer to a prompt of handle_code_blocks, one activation per answer, and
\* only on a modification text that is not empty; there are never more nested
\* activations than requests to modify made by the user.
C20_EditGatedByUser ==
    /\ [][Len(stack') > Len(stack) /\ stack # <<>> =>
            \E raw \in Answers :
                /\ Strip(Tail(Choice(raw))) # <<>>
                /\ StartsNested(Strip(Tail(Choice(raw))))]_vars
    /\ [](stack # <<>> => Len(stack) - 1 <= Cardinality(Edits))

\* a nested turn runs on the request "fix"
C20_Witness ==
    /\ Len(stack) = 2
    /\ stack[1].pc = "nested"
    /\ stack[2].prompt = <<"qingxiugaidaima:", "fix">>
    /\ stack[2].pc = "loop"

(***************************************************************************)
(* The rename decision                                                      *)
(***************************************************************************)
\* the path a new file name stands for: the name itself when it starts at
\* the root, the name below the working directory otherwise
Resolved(name) == IF name[1] = "/" THEN name ELSE current_dir \o <<"/">> \o name

\* the block the running activation is asking about
Block == Top.code_blocks[Top.bi]

\* the path of the name first suggested for that block
SuggestedPath == current_dir \o <<"/">> \o Top.filenames[Top.bi]

\* the step taken at the prompt for the new name: nothing is written, and
\* the confirmation is asked for the resolved path of a name that is not empty
RenameNamed ==
    /\ written' = written
    /\ (Len(stack') = Len(stack) /\ stack'[Len(stack')].pc = "rnm_confirm") =>
          \E raw \in FileNames :
              /\ Strip(raw) # <<>>
              /\ stack'[Len(stack')].full_path = Resolved(Strip(raw))
              /\ stack'[Len(stack')].full_path # SuggestedPath

\* the step taken at the confirmation: nothing is written, or the content of
\* the block is written to the path asked about, after the answer y
RenameConfirmed ==
    \/ written' = written
    \/ \E raw \in Answers :
          /\ Choice(raw) = <<"y">>
          /\ written' = <<[path |-> Top.full_path, content |-> Block.content,
                           shown |-> Top.suggested_filename, answer |-> raw]>>

Failed == last_return # <<>> /\ ~last_return[1].success

\* a step in which such a call returns a failure
FailureStep ==
    /\ Running /\ Top.pc \in InputPcs
    /\ last_return' # last_return
    /\ ~last_return'[1].success

\* what the user is asked next when the action at hand is over
Continues(f) == IF f.pc = "cmds" THEN CommandAt(f, f.ci + 1) ELSE NextBlock(f)

\* no file is offered for chmod or for execution while the most recent call
\* is one that failed
NoOfferAfterFailure == \A f \in Frames : f.pc \in {"chmod", "launch"} => ~Failed

\* C22: a failure of an action is local. When a file write fails or an
\* executed command exits with a status other than 0, no further step of that
\* action is offered (no chmod and no launch after a failed write), and the
\* run goes on with the next command or code block of the same response, the
\* one it would have gone on with had the action at hand been declined.
C22_FailuresAreLocal ==
    /\ []NoOfferAfterFailure
    /\ [][FailureStep => stack' = SetTop(Continues(Top))]_vars

\* the first block could not be written, and the user is asked about the
\* second one
C22_Witness ==
    /\ Running /\ Top.pc = "blocks" /\ Top.bi = 2
    /\ last_return = <<Returns("write_to_file", FALSE)>>

(***************************************************************************)
(* The suggested file name                                                  *)
(***************************************************************************)
\* the name of the first filename directive of the content, <<>> when the
\* content has none
Directive(content) ==
    IF DirectiveHash(content) # <<>> THEN DirectiveHash(content)
    ELSE IF DirectiveBracket(content, "/*", "*/") # <<>>
    THEN DirectiveBracket(content, "/*", "*/")
    ELSE DirectiveBracket(content, "<!--", "-->")

\* the extension the table gives for the tags of SuggestLanguages
TableExt(lang) ==
    CASE lang = <<"python">> -> <<".", "py">>
      [] lang = <<"js">>     -> <<".", "js">>
      [] lang = <<"html">>   -> <<".", "html">>
      [] lang = <<"bash">>   -> <<".", "sh">>
      [] lang = <<"c">>      -> <<".", "c">>
      [] OTHER               -> <<".", "txt">>

IsPython(lang) == lang \in {<<"python">>, <<"py">>}
IsShell(lang)  == lang \in {<<"sh">>, <<"bash">>, <<"shell">>}
MainMarker(content) ==
    HasPair(content, "def", "main") \/ Contains(content, "if__name__==__main__")
JsMainMarker(content) ==
    HasPair(content, "function", "main") \/ HasPair(content, "const", "main")

\* the name the stated priority gives
StatedName(lang, content) ==
    IF Directive(content) # <<>> THEN Directive(content)
    ELSE IF IsPython(lang) /\ MainMarker(content) THEN <<"main", ".", "py">>
    ELSE IF IsPython(lang) /\ ClassName(content) # <<>> THEN ClassName(content) \o <<".", "py">>
    ELSE IF lang = <<"html">> THEN <<"index", ".", "html">>
    ELSE IF IsShell(lang) THEN <<"script", ".", "sh">>
    ELSE <<"file_T">> \o TableExt(lang)

\* the same, with the class name lower-cased and the main marker of a
\* javascript block
AmendedName(lang, content) ==
    IF Directive(content) # <<>> THEN Directive(content)
    ELSE IF IsPython(lang) /\ MainMarker(content) THEN <<"main", ".", "py">>
    ELSE IF IsPython(lang) /\ ClassName(content) # <<>>
    THEN Lower(ClassName(content)) \o <<".", "py">>
    ELSE IF lang \in {<<"js">>, <<"javascript">>} /\ JsMainMarker(content)
    THEN <<"main", ".", "js">>
    ELSE IF lang = <<"html">> THEN <<"index", ".", "html">>
    ELSE IF IsShell(lang) THEN <<"script", ".", "sh">>
    ELSE <<"file_T">> \o TableExt(lang)

\* C23 (as stated): suggest_filename applies a fixed priority: a filename
\* directive in the content yields the directive's name whatever the
\* language; otherwise a python block with a main-entry marker yields main.py,
\* a python block with a class declaration <classname>.py, an html block
\* index.html and a shell block script.sh; otherwise the result is
\* file_<timestamp><ext> with <ext> from the language table, .txt for an
\* unknown language.
C23_Priority ==
    sf_pc = "done" => sf_name = StatedName(Lower(sf_block.language), sf_block.content)

\* C23 (amended): the same priority, where the class name is lower-cased, and
\* where a javascript block with a main marker ("function main" or "const
\* main") yields main.js before the timestamp name is used.
C23_PriorityAmended ==
    sf_pc = "done" => sf_name = AmendedName(Lower(sf_block.language), sf_block.content)

\* the name of a python block with a main function was computed
C23_Witness ==
    /\ sf_pc = "done"
    /\ sf_block = [language |-> <<"python">>, content |-> <<"def", SP, "main", ":">>]
    /\ sf_name = <<"main", ".", "py">>

(***************************************************************************)
(* The status indicator of an attempt                                       *)
(***************************************************************************)
\* the attempts made so far by the activations that are running
AttemptsMade == UNION {{f.attempts[i] : i \in DOMAIN f.attempts} : f \in Frames}

\* C24: for each provider attempt a status indicator is running (started,
\* its stop event not set) at the moment stream_response is called and while
\* the call is awaited; it is signalled to stop only once the outcome of the
\* attempt is known.
C24_IndicatorDuringCall == \A a \in AttemptsMade : a.indicator

(***************************************************************************)
(* The first prompt for a code block                                        *)
(***************************************************************************)
\* a step that enters chat_once from the prompt at hand (line 1010)
EntersNested == Len(stack') = Len(stack) + 1

\* C25: at the first prompt for a code block the decisions are Write,
\* Discard, Show and Rename only: a request to modify the block (and so a
\* nested turn) happens only after a Show decision for that block, and any
\* other input at the first prompt discards the block with no other effect -
\* no message is appended and nothing is written or run.
C25_EditOnlyAfterShow ==
    [][(Running /\ Top.pc = "blocks") =>
          /\ ~EntersNested
          /\ history' = history /\ history_file' = history_file
          /\ spawned' = spawned]_vars

(***************************************************************************)
(* The execution of a written file                                          *)
(***************************************************************************)
\* the three kinds of file that handle_executable_file knows, in its order
ShellFile(f)  == IsShell(Block.language) \/ EndsWith(f.full_path, <<".", "sh">>)
PythonFile(f) == ~ShellFile(f) /\ (IsPython(Block.language) \/ EndsWith(f.full_path, <<".", "py">>))
NodeFile(f)   == /\ ~ShellFile(f) /\ ~PythonFile(f)
                 /\ (Block.language \in {<<"javascript">>, <<"js">>} \/ EndsWith(f.full_path, <<".", "js">>))

\* the most recent command run is chmod +x on the file of f, after the
\* answer y, and it exited with status 0
ChmodDone(f) ==
    /\ spawned # <<>>
    /\ spawned[1].cmd = <<"chmod", SP, "+", "x", SP>> \o f.full_path
    /\ Lower(Strip(spawned[1].answer)) = <<"y">>
    /\ last_return = <<Returns("execute_command", TRUE)>>

\* what is offered at the launch prompt of f
LaunchOffer(f) ==
    \/ ShellFile(f)  /\ f.cmd = f.full_path /\ ChmodDone(f)
    \/ PythonFile(f) /\ f.cmd = <<"python3", SP>> \o f.full_path
    \/ NodeFile(f)   /\ f.cmd = <<"node", SP>> \o f.full_path

\* the step taken at the chmod prompt offers the launch only when chmod was
\* run and returned success
ChmodGates ==
    (Len(stack') = Len(stack) /\ stack'[Len(stack')].pc = "launch") =>
        /\ spawned' # <<>>
        /\ spawned' = <<Spawn(Top.cmd, Top.cmd, spawned'[1].answer, NoBlock)>>
        /\ Lower(Strip(spawned'[1].answer)) = <<"y">>
        /\ last_return' = <<Returns("execute_command", TRUE)>>

\* the step taken at the launch prompt runs nothing, or the command offered
\* after the answer y
LaunchConfirmed ==
    \/ spawned' = spawned
    \/ /\ spawned'[1].cmd = Top.cmd /\ spawned'[1].block = Block
       /\ Lower(Strip(spawned'[1].answer)) = <<"y">>

\* C26: for a written shell script the direct launch of the file is offered
\* only after the user confirmed chmod +x on it and chmod exited with status
\* 0; when chmod is declined or fails the script is not launched. A python
\* file is launched through python3 and a javascript file through node, and
\* each launch happens only after its own confirmation.
C26_LaunchAfterChmod ==
    /\ [](Running /\ Top.pc = "launch" => LaunchOffer(Top))
    /\ [][/\ (Running /\ Top.pc = "chmod") => ChmodGates
          /\ (Running /\ Top.pc = "launch") => LaunchConfirmed
          /\ (Running /\ Top.pc \notin {"launch", "cmds", "chmod"}) => spawned' = spawned]_vars

\* the launch of a shell script is offered: chmod was confirmed and succeeded
C26_Witness ==
    /\ Running /\ Top.pc = "launch"
    /\ ShellFile(Top) /\ Top.cmd = Top.full_path
    /\ ChmodDone(Top)

(***************************************************************************)
(* The indicator threads of a session                                       *)
(***************************************************************************)
\* the indicators that were started and not signalled to stop
RunningIndicators == {i \in DOMAIN events : ~events[i]}

\* C27: at every point of a session, nested turns included, at most one
\* status-indicator thread exists whose stop event is not set: an indicator
\* is started only after the one started before it was signalled to stop.
C27_OneIndicator ==
    /\ [](Cardinality(RunningIndicators) <= 1)
    /\ [][Len(events') > Len(events) =>
             /\ \A i \in DOMAIN events : events'[i]
             /\ Len(events') = Len(events) + 1]_vars

\* the activation for a request to modify a block has started its indicator,
\* the fourth of the run, after a provider failed it
C27_Witness ==
    /\ Len(stack) = 2
    /\ Len(events) >= 3
    /\ RunningIndicators = {Len(events)}

(***************************************************************************)
(* The conversation and its log                                             *)
(***************************************************************************)
\* main has replaced the conversation by the list load_history returned
\* (line 1261): every history file of InitialLogs holds a record, so that
\* list is longer than the initial one
Loaded == main_pc \in {"chat", "exit"} /\ Len(history) > 1

\* a turn has completed: chat_once is about to return, or has returned
TurnCompleted == main_pc = "exit" \/ (Running /\ Top.pc = "return")

\* every text that a run of Spec appends to the conversation: the prompts,
\* the requests to modify a block, the replies and the fallback messages
KnownContents ==
    {PromptOf(a, t) : a \in Args, t \in {<<>>, <<"hi">>}}
    \cup {<<"qingxiugaidaima:">> \o Strip(Tail(Choice(raw))) : raw \in Answers \ {<<>>}}
    \cup {o.message : o \in Outcomes} \cup fallback_response

\* what load_history makes of each line that the log of a run of Spec can
\* hold
LineTable ==
    [line \in UNION {{f[i] : i \in DOMAIN f} : f \in InitialLogs}
              \cup {HistoryLine(r, c) : r \in Roles, c \in KnownContents}
        |-> LoadLine(line)]

\* the messages recorded in the log, in order: LoadLines(history_file)
Recorded ==
    LET R[i \in 0..Len(history_file)] ==
            IF i = 0 THEN <<>>
            ELSE LET r == LineTable[history_file[i]]
                 IN  R[i - 1] \o (IF r.kind = "append" THEN <<r.msg>> ELSE <<>>)
    IN  R[Len(history_file)]

\* one message is appended to the conversation, and one line to the log,
\* which load_history reads as a record with the same role and content
PairedAppend ==
    /\ Len(history') = Len(history) + 1
    /\ SubSeq(history', 1, Len(history)) = history
    /\ Len(history_file') = Len(history_file) + 1
    /\ SubSeq(history_file', 1, Len(history_file)) = history_file
    /\ LineTable[history_file'[Len(history_file')]] =
           [kind |-> "append", msg |-> history'[Len(history')]]

\* C28: once main has loaded the history, whenever a turn has completed the
\* conversation in memory is the System message followed by the messages
\* recorded in the history log, in order: every append to the conversation
\* comes with the append of a record with the same role and content to the
\* log, and nothing else writes either of them.
C28_ConversationIsLog ==
    /\ [](Loaded /\ TurnCompleted => history = <<Msg(<<"system">>, SYSTEM_PROMPT)>> \o Recorded)
    /\ [][(main_pc # "start" /\ (history' # history \/ history_file' # history_file))
              => PairedAppend]_vars

\* a turn with a request to modify a block has completed: the log holds the
\* record of the earlier run and those of two prompts and two replies
C28_Witness ==
    /\ main_pc = "exit" /\ Loaded
    /\ Len(history) = 6
    /\ Len(Recorded) = 5
    /\ history[5].role = <<"user">> /\ history[5].content[1] = "qingxiugaidaima:"

(***************************************************************************)
(* The messages of a turn                                                   *)
(***************************************************************************)
\* the messages appended during the session: those that were not loaded
Appended ==
    SelectSeq(history, LAMBDA m : m.role # <<"system">> /\ m.content # <<"old">>)

\* C29: each turn (each activation of chat_once, nested ones included)
\* appends one User message, the prompt, before any provider is attempted,
\* and then exactly one Assistant message of its own, a provider's text or
\* the fallback message; hence the messages appended during a session
\* alternate User, Assistant.
C29_OneUserOneAssistant ==
    /\ \A f \in Frames :
          /\ Len(f.own) <= 1
          /\ f.attempts # <<>> => Appended # <<>>
          /\ f.pc = "return" => Len(f.own) = 1
    /\ \A i \in DOMAIN Appended :
          Appended[i].role = IF i % 2 = 1 THEN <<"user">> ELSE <<"assistant">>

(***************************************************************************)
(* The error test on the aggregated text                                    *)
(***************************************************************************)
\* the text begins with the word for "error:" or holds the words for
\* "request error"
FailureText(text) ==
    \/ (Len(text) > 0 /\ Head(text) = "cuowu:")
    \/ \E i \in DOMAIN text : text[i] = "qingqiucuowu"

\* the text that stream_response returned in the attempt a
TextOf(a) == (CHOOSE o \in Outcomes : o.model = a.model /\ o.does = a.does).message

\* a step in which the running activation makes one provider attempt
AttemptStep ==
    /\ Running /\ Top.pc = "loop"
    /\ Len(stack') = Len(stack)
    /\ Len(stack'[Len(stack')].attempts) = Len(Top.attempts) + 1

\* what such a step does with the text
TreatedByText ==
    LET g    == stack'[Len(stack')]
        a    == g.attempts[Len(g.attempts)]
        text == TextOf(a)
    IN  IF FailureText(text)
        THEN /\ ~a.accepted
             /\ history' = history /\ history_file' = history_file
             /\ current_model' = current_model
             /\ g.commands = Top.commands /\ g.code_blocks = Top.code_blocks
             /\ g.message = Top.message
             /\ g.pc = "loop" /\ g.mi = Top.mi + 1
        ELSE /\ a.accepted
             /\ history' = Append(history, Msg(<<"assistant">>, text))
             /\ Len(history_file') = Len(history_file) + 1
             /\ current_model' = a.model
             /\ g.message = text /\ g.pc # "loop"

\* C30: an aggregated provider text is treated as a failed attempt exactly
\* when it begins with the word for "error:" or contains the words for
\* "request error". For such a text, a genuine reply of a model included,
\* nothing is appended to the conversation or persisted, the preferred
\* provider is not changed, no command or code block of it is processed and
\* the next provider of the trial list is tried; every other text, the empty
\* one included, is treated as a success.
C30_FailedExactlyByText == [][AttemptStep => TreatedByText]_vars

\* the reply of openai that begins with the word for "error:" was dropped
\* and the empty reply of deepseek was accepted
C30_Witness ==
    /\ Running /\ Len(Top.attempts) = 2
    /\ TextOf(Top.attempts[1]) = TextLikeError /\ ~Top.attempts[1].accepted
    /\ TextOf(Top.attempts[2]) = <<>> /\ Top.attempts[2].accepted
    /\ history[Len(history)] = Msg(<<"assistant">>, <<>>)
    /\ current_model = "deepseek"

(***************************************************************************)
(* The return of a nested turn                                              *)
(***************************************************************************)
\* the activation f, which waits at line 1010, goes on as g when the nested
\* chat_once returns: with the block after the one it asked to modify, or
\* with its own return when there is none
Resumes(f, g) ==
    /\ f.pc = "nested"
    /\ g.code_blocks = f.code_blocks /\ g.commands = f.commands
    /\ g.message = f.message /\ g.attempts = f.attempts
    /\ IF f.bi < Len(f.code_blocks)
       THEN /\ g.pc = "blocks" /\ g.bi = f.bi + 1
            /\ g.suggested_filename = f.filenames[f.bi + 1]
       ELSE /\ g.pc = "return" /\ g.bi = f.bi /\ g.ret = f.message

\* a step of the running activation on the response it has accepted presents
\* a block only when it is the one after the block at hand (the first one
\* after the commands)
PresentsNext(f, g) ==
    (g.pc = "blocks" /\ g.attempts = f.attempts) =>
        /\ f.pc \in BlockPcs \cup {"cmds"}
        /\ g.code_blocks = f.code_blocks
        /\ g.bi = IF f.pc = "cmds" THEN 1 ELSE f.bi + 1

\* C31: after the nested turn of a request to modify a block returns,
\* handle_code_blocks goes on with the remaining code blocks of the outer
\* response: every block of that response is presented once and never again,
\* and the blocks after the modified one are presented only when every
\* prompt of the nested turn has been resolved.
C31_ResumesAfterNested ==
    [][\A k \in DOMAIN stack \cap DOMAIN stack' :
          \* an activation under the running one waits, unchanged
          /\ (k < Len(stack) /\ k < Len(stack')) =>
                stack[k].pc = "nested" /\ stack'[k] = stack[k]
          \* the nested activation returns
          /\ (k = Len(stack') /\ k = Len(stack) - 1) =>
                Top.pc = "return" /\ Resumes(stack[k], stack'[k])
          \* the nested activation starts
          /\ (k = Len(stack) /\ k = Len(stack') - 1) =>
                stack'[k] = [stack[k] EXCEPT !.pc = "nested"]
          \* the running activation takes a step
          /\ (k = Len(stack) /\ k = Len(stack')) =>
                PresentsNext(stack[k], stack'[k])]_vars

\* the nested turn of a request to modify the first of two blocks has
\* returned, and the second block of the outer response is presented
C31_Witness ==
    /\ Len(stack) = 1 /\ Top.pc = "blocks" /\ Top.bi = 2
    /\ Len(Top.code_blocks) = 2
    /\ \E i \in Edits : i < Len(history) /\ history[i + 1].role = <<"assistant">>

====
